---- MODULE Spec2Model ----
(***************************************************************************)
(* Verification model of the GovCA approval automation:                    *)
(*   - the stop-escalation controller of the GUI (src/src/app.py),         *)
(*   - the cancellation primitives, selectors and workflows of the bot     *)
(*     (src/src/core/bot.py).                                              *)
(* Python None is modelled by 0 for object references and timer ids.       *)
(***************************************************************************)
EXTENDS Integers, Sequences, FiniteSets, TLC

(***************************************************************************)
(* Bounds of the model.                                                    *)
(***************************************************************************)
MaxRuns == 2
MaxStops == 2

None == 0

VARIABLES
    \* ---- GovCAApp (controlling thread) --------------------------------
    is_running,          \* self.is_running
    automation_thread,   \* self.automation_thread: None or a thread id
    cancel_event,        \* self.cancel_event (threading.Event), shared with the bot
    escalate_timer_id,   \* self._escalate_timer_id
    finalize_timer_id,   \* self._finalize_timer_id
    after_pending,       \* Tk callbacks scheduled with self.after and not yet fired
    after_count,         \* number of ids handed out by self.after
    bot,                 \* self.bot: None or the id of a GovCAApprovalBot
    bot_driver,          \* bot.driver of every bot object: "none" or "live"
    poll_error_logged,   \* the log shows a "Polling error" line
    result_shown,        \* outcome reported by _show_result/_notify_user: "none", "failure", "success"
    runs,                \* number of runs started
    stops,               \* number of stop requests
    \* ---- worker threads started by _start_automation -------------------
    thread_state,        \* per thread id: "unstarted", "alive", "dead"
    thread_bot,          \* the bot each worker holds (local reference 'bot')
    thread_saw_cancel,   \* the worker has read the token as set
    \* ---- one call of interruptible_sleep / cancellable_wait ------------
    prim,                \* the function called: "interruptible_sleep", "cancellable_wait"
                         \* or "webdriver_wait" (WebDriverWait(...).until called directly)
    duration,            \* its argument (seconds / timeout), in tenths of a second
    elapsed,             \* local 'elapsed', in tenths of a second
    wait_time,           \* local 'wait_time', in tenths of a second
    prim_pc,             \* "loop", "waiting", "returned", "cancelled", "timeout"
    now,                 \* time since the call started, in tenths of a second
    wait_end,            \* deadline of the wait in progress
    set_at,              \* time at which the token was set, -1 while it is unset
    \* ---- get_counterpart_domain applied to a domain name ----------------
    domain_name,         \* the argument 'domain', a sequence of characters
    counterpart,         \* get_counterpart_domain(domain)
    counterpart2,        \* get_counterpart_domain(counterpart)
    dom_pc,              \* "start", "once", "twice"
    \* ---- one workflow run of GovCAApprovalBot on a worker thread --------
    workflow,            \* the run_* function called
    progress_callback,   \* self.progress_callback: "six_fields" or "three_fields"
    remote_surface,      \* how the remote surface answers: "any", or as a run without
                         \* failures with the targets "all_on_page_1" or "one_per_page",
                         \* or with a primary domain without pending users ("primary_empty"),
                         \* or "endless": as "any", with a next page after every page,
                         \* or "one_per_batch": without failures, one target per search
    bot_pc,              \* control point of the worker inside bot.py
    call_stack,          \* return points of the calls in progress, innermost first
    callee,              \* the guarded helper being executed
    ret,                 \* value returned by the last call, None while a call runs
    ret_matched,         \* second component returned by select_specific_users
    run,                 \* locals of the workflow function
    ssu,                 \* locals of select_specific_users
    au,                  \* locals of approve_users / reject_users
    aug,                 \* locals of assign_users_to_group
    prd,                 \* locals of _process_revoke_for_domain
    emitted,             \* progress snapshots handed to report_progress
    result,              \* value returned by the workflow function, "running" before
    \* ---- one call of wait_for_table_loaded ------------------------------
    wtl,                 \* its locals and the samples it has read from the page
    \* ---- LogBuffer (logging_handler.py) ----------------------------------
    lb,                  \* its queue and messages, and the poll in progress
    \* ---- the Tk window of GovCAApp ---------------------------------------
    window,              \* "open", "destroyed" after self.destroy() in on_closing
    \* ---- what the completion check of _poll_updates reads ----------------
    thread_result,       \* per thread id: what its workflow function returned
    log_text_error,      \* the text of self.log_text contains "ERROR"
    \* ---- time on the controlling thread, in seconds ----------------------
    clock,               \* time since the application started
    stop_at,             \* time of the first stop request of the run, -1 before it
    \* ---- one call of go_to_next_page on the worker thread ---------------
    gnp,                 \* its locals: attempt, fingerprint_before, fingerprint_after
    \* ---- the browser session of the bot ----------------------------------
    sess                 \* self.driver and the locals of ensure_valid_session,
                         \* setup_browser and navigate_to_govca

ctlVars == <<is_running, automation_thread, cancel_event, escalate_timer_id,
             finalize_timer_id, after_pending, after_count, bot, bot_driver,
             poll_error_logged, result_shown, runs, stops,
             thread_state, thread_bot, thread_saw_cancel>>

ctlOnly == <<is_running, automation_thread, escalate_timer_id,
             finalize_timer_id, after_pending, after_count, bot, bot_driver,
             poll_error_logged, result_shown, runs, stops,
             thread_state, thread_bot, thread_saw_cancel>>

primVars == <<prim, duration, elapsed, wait_time, prim_pc, now, wait_end, set_at>>

domVars == <<domain_name, counterpart, counterpart2, dom_pc>>

dataVars == <<callee, ret, ret_matched, run, ssu, au, aug, prd, result>>

botVars == <<workflow, progress_callback, remote_surface, bot_pc, call_stack, dataVars,
             emitted>>

tblVars == <<wtl>>

\* the helper calls and objects modelled on their own, and the window
logVars == <<lb>>

winVars == <<window>>

outVars == <<thread_result, log_text_error>>

clkVars == <<clock, stop_at>>

pageVars == <<gnp, sess>>

extVars == <<tblVars, logVars, winVars, outVars, clkVars, pageVars>>

nonCtlVars == <<primVars, domVars, botVars, extVars>>

nonPrimVars == <<ctlOnly, domVars, botVars, extVars>>

nonDomVars == <<ctlVars, primVars, botVars, extVars>>

nonBotVars == <<ctlVars, primVars, domVars, extVars>>

nonTblVars == <<ctlOnly, primVars, domVars, botVars, logVars, winVars, outVars, clkVars,
                pageVars>>

nonLogVars == <<ctlVars, primVars, domVars, botVars, tblVars, winVars, outVars, clkVars,
                pageVars>>

vars == <<ctlVars, primVars, domVars, botVars, extVars>>

Threads == 1..MaxRuns
Bots == 1..MaxRuns

(***************************************************************************)
(* threading.Thread.is_alive() of the thread object held in                *)
(* self.automation_thread.                                                 *)
(***************************************************************************)
is_alive_StartedThread(t) == thread_state[t] # "unstarted"

is_alive(t) == thread_state[t] = "alive"

AliveWorkers == {t \in Threads : thread_state[t] = "alive"}

(***************************************************************************)
(* self.after(5000, fn): a fresh id, the callback becomes pending and is   *)
(* due 5 s from now.                                                       *)
(***************************************************************************)
TimerDelay == 5

AfterSchedule(pending, fn) ==
    pending \cup {[id |-> after_count + 1, fn |-> fn, due |-> clock + TimerDelay]}

(***************************************************************************)
(* self.after_cancel(id).                                                  *)
(***************************************************************************)
AfterCancel(pending, id) == {e \in pending : e.id # id}

(***************************************************************************)
(* _cancel_escalation_timers: cancels both timers whose id is not None.    *)
(***************************************************************************)
CancelledTimers_EscalationOnly(pending) ==
    IF escalate_timer_id # None THEN AfterCancel(pending, escalate_timer_id) ELSE pending

CancelledTimers(pending) ==
    LET p1 == IF escalate_timer_id # None THEN AfterCancel(pending, escalate_timer_id) ELSE pending
    IN  IF finalize_timer_id # None THEN AfterCancel(p1, finalize_timer_id) ELSE p1

(***************************************************************************)
(* ProgressTracker.poll returns the tuple (current, total, message,        *)
(* changed); _poll_updates subscripts the result with string keys          *)
(* (data['current']), which only a dict supports.                          *)
(***************************************************************************)
ProgressPollShape == "tuple"

PollSubscriptRaises_PollReturnsDict == FALSE

PollSubscriptRaises == ProgressPollShape # "dict"

InitCtl ==
    /\ is_running = FALSE
    /\ automation_thread = None
    /\ cancel_event = FALSE
    /\ escalate_timer_id = None
    /\ finalize_timer_id = None
    /\ after_pending = {}
    /\ after_count = 0
    /\ bot = None
    /\ bot_driver = [b \in Bots |-> "none"]
    /\ poll_error_logged = FALSE
    /\ result_shown = "none"
    /\ runs = 0
    /\ stops = 0
    /\ thread_state = [t \in Threads |-> "unstarted"]
    /\ thread_bot = [t \in Threads |-> None]
    /\ thread_saw_cancel = [t \in Threads |-> FALSE]
    /\ window = "open"
    /\ thread_result = [t \in Threads |-> "none"]
    /\ log_text_error = FALSE
    /\ clock = 0
    /\ stop_at = -1

(***************************************************************************)
(* _start_automation.  'valid' is the outcome of input validation and of   *)
(* the batch-reject confirmation dialog (both return early).               *)
(***************************************************************************)
StartAutomation ==
    /\ UNCHANGED <<primVars, domVars, botVars, tblVars, pageVars, logVars, winVars, outVars, clock>>
    /\ window = "open"
    /\ ~is_running
    /\ runs < MaxRuns
    /\ \E valid \in BOOLEAN :
        IF ~valid THEN UNCHANGED vars
        ELSE
          LET t == runs + 1
              b == IF bot = None THEN runs + 1 ELSE bot
          IN
            /\ cancel_event' = FALSE
            /\ is_running' = TRUE
            /\ bot' = b
            /\ thread_state' = [thread_state EXCEPT ![t] = "alive"]
            /\ thread_bot' = [thread_bot EXCEPT ![t] = b]
            /\ automation_thread' = t
            /\ runs' = runs + 1
            /\ stop_at' = -1
            /\ UNCHANGED <<escalate_timer_id, finalize_timer_id, after_pending,
                           after_count, bot_driver, poll_error_logged,
                           result_shown, stops, thread_saw_cancel>>

(***************************************************************************)
(* _stop_automation.                                                       *)
(***************************************************************************)
StopAutomation ==
    /\ UNCHANGED <<primVars, domVars, botVars, tblVars, pageVars, logVars, winVars, outVars, clock>>
    /\ window = "open"
    /\ is_running
    /\ stops < MaxStops
    /\ cancel_event' = TRUE
    /\ after_pending' = AfterSchedule(CancelledTimers(after_pending), "escalate")
    /\ after_count' = after_count + 1
    /\ escalate_timer_id' = after_count + 1
    /\ finalize_timer_id' = None
    /\ stops' = stops + 1
    /\ stop_at' = IF stop_at = -1 THEN clock ELSE stop_at
    /\ UNCHANGED <<is_running, automation_thread, bot, bot_driver, poll_error_logged,
                   result_shown, runs, thread_state, thread_bot, thread_saw_cancel>>

FinalizeEffect_OnlyIfWorkerDead ==
    IF is_running /\ (automation_thread = None \/ ~is_alive(automation_thread))
    THEN /\ is_running' = FALSE
         /\ automation_thread' = None
         /\ result_shown' = "failure"
    ELSE UNCHANGED <<is_running, automation_thread, result_shown>>

(***************************************************************************)
(* The body of _finalize_stop after the timer id was dropped: resets the   *)
(* UI state if the run is still marked running.                            *)
(***************************************************************************)
FinalizeEffect ==
    IF is_running
    THEN /\ is_running' = FALSE
         /\ automation_thread' = None
         /\ result_shown' = "failure"
    ELSE UNCHANGED <<is_running, automation_thread, result_shown>>

(***************************************************************************)
(* _escalate_stop, fired by Tk when the escalation timer expires.          *)
(***************************************************************************)
EscalateStop ==
    \E e \in after_pending :
      /\ UNCHANGED nonCtlVars
      /\ window = "open"
      /\ e.fn = "escalate"
      /\ escalate_timer_id' = None
      /\ IF automation_thread # None /\ is_alive(automation_thread)
         THEN /\ bot_driver' = IF bot # None /\ bot_driver[bot] # "none"
                               THEN [bot_driver EXCEPT ![bot] = "none"]
                               ELSE bot_driver
              /\ after_pending' = AfterSchedule(after_pending \ {e}, "finalize")
              /\ after_count' = after_count + 1
              /\ finalize_timer_id' = after_count + 1
              /\ UNCHANGED <<is_running, automation_thread, result_shown>>
         ELSE /\ after_pending' = after_pending \ {e}
              /\ IF is_running
                 THEN /\ finalize_timer_id' = None
                      /\ FinalizeEffect
                 ELSE UNCHANGED <<finalize_timer_id, is_running, automation_thread, result_shown>>
              /\ UNCHANGED <<after_count, bot_driver>>
      /\ UNCHANGED <<cancel_event, bot, poll_error_logged, runs, stops,
                     thread_state, thread_bot, thread_saw_cancel>>

(***************************************************************************)
(* _finalize_stop, fired by Tk when the finalize timer expires.            *)
(***************************************************************************)
FinalizeStop ==
    \E e \in after_pending :
      /\ UNCHANGED nonCtlVars
      /\ window = "open"
      /\ e.fn = "finalize"
      /\ after_pending' = after_pending \ {e}
      /\ finalize_timer_id' = None
      /\ FinalizeEffect
      /\ UNCHANGED <<cancel_event, escalate_timer_id, after_count, bot, bot_driver,
                     poll_error_logged, runs, stops,
                     thread_state, thread_bot, thread_saw_cancel>>

(***************************************************************************)
(* _poll_updates (every 100 ms).  The polled log messages are written to   *)
(* log_text first; the text of a message (an exception text embedded in    *)
(* it) may contain "ERROR", the level is only a tag.  Then the subscript   *)
(* of the progress poll result raises before the "thread finished" check;  *)
(* the handler logs "Polling error" and the callback is rescheduled.  The  *)
(* check reports success = not has_errors, where has_errors is "ERROR" in  *)
(* the whole text of log_text; the value the workflow function returned is *)
(* discarded by run_automation.                                            *)
(***************************************************************************)
PollUpdates ==
    /\ UNCHANGED <<primVars, domVars, botVars, tblVars, pageVars, logVars, winVars, thread_result,
                   clkVars>>
    /\ window = "open"
    /\ \E error_text \in BOOLEAN :
          /\ error_text => runs > 0
          /\ log_text_error' = (log_text_error \/ error_text)
    /\ IF PollSubscriptRaises
       THEN /\ poll_error_logged' = TRUE
            /\ UNCHANGED <<is_running, automation_thread, cancel_event, escalate_timer_id,
                           finalize_timer_id, after_pending, after_count, bot, bot_driver,
                           result_shown, runs, stops, thread_state, thread_bot,
                           thread_saw_cancel>>
       ELSE IF automation_thread # None /\ ~is_alive(automation_thread)
            THEN /\ after_pending' = CancelledTimers(after_pending)
                 /\ escalate_timer_id' = None
                 /\ finalize_timer_id' = None
                 /\ is_running' = FALSE
                 /\ automation_thread' = None
                 /\ result_shown' = IF ~is_running THEN result_shown
                                    ELSE IF log_text_error' THEN "failure" ELSE "success"
                 /\ UNCHANGED <<cancel_event, after_count, bot, bot_driver, poll_error_logged,
                                runs, stops, thread_state, thread_bot, thread_saw_cancel>>
            ELSE UNCHANGED ctlVars

(***************************************************************************)
(* _close_browser_session (the "Close Browser" button), confirmed.         *)
(***************************************************************************)
CloseBrowserSession ==
    /\ UNCHANGED nonCtlVars
    /\ window = "open"
    /\ ~is_running
    /\ bot # None
    /\ bot_driver' = [bot_driver EXCEPT ![bot] = "none"]
    /\ bot' = None
    /\ UNCHANGED <<is_running, automation_thread, cancel_event, escalate_timer_id,
                   finalize_timer_id, after_pending, after_count, poll_error_logged,
                   result_shown, runs, stops, thread_state, thread_bot, thread_saw_cancel>>

(***************************************************************************)
(* on_closing (WM_DELETE_WINDOW).  With a run in progress the user is      *)
(* asked; on yes the token is set, bot.close_browser() quits the driver    *)
(* and drops the handle, and the window is destroyed, which ends the Tk    *)
(* main loop and its callbacks.                                            *)
(***************************************************************************)
OnClosing ==
    /\ UNCHANGED <<primVars, domVars, botVars, tblVars, pageVars, logVars, outVars, clkVars>>
    /\ window = "open"
    /\ \E confirmed \in BOOLEAN :
          IF is_running /\ ~confirmed
          THEN UNCHANGED vars
          ELSE /\ cancel_event' = (is_running \/ cancel_event)
               /\ bot_driver' = IF bot # None
                                THEN [bot_driver EXCEPT ![bot] = "none"]
                                ELSE bot_driver
               /\ window' = "destroyed"
               /\ UNCHANGED <<is_running, automation_thread, escalate_timer_id,
                              finalize_timer_id, after_pending, after_count, bot,
                              poll_error_logged, result_shown, runs, stops,
                              thread_state, thread_bot, thread_saw_cancel>>

(***************************************************************************)
(* run_automation on a worker thread: the workflow drives the bot's        *)
(* driver (ensure_valid_session creates one when there is none), reads     *)
(* the token at its check points, and ends when the workflow function      *)
(* returns or raises.                                                      *)
(***************************************************************************)
WorkerUseSession(t) ==
    /\ UNCHANGED nonCtlVars
    /\ is_alive(t)
    /\ bot_driver[thread_bot[t]] = "none"
    /\ bot_driver' = [bot_driver EXCEPT ![thread_bot[t]] = "live"]
    /\ UNCHANGED <<is_running, automation_thread, cancel_event, escalate_timer_id,
                   finalize_timer_id, after_pending, after_count, bot, poll_error_logged,
                   result_shown, runs, stops, thread_state, thread_bot, thread_saw_cancel>>

WorkerCheckCancelled(t) ==
    /\ UNCHANGED nonCtlVars
    /\ is_alive(t)
    /\ cancel_event
    /\ ~thread_saw_cancel[t]
    /\ thread_saw_cancel' = [thread_saw_cancel EXCEPT ![t] = TRUE]
    /\ UNCHANGED <<is_running, automation_thread, cancel_event, escalate_timer_id,
                   finalize_timer_id, after_pending, after_count, bot, bot_driver,
                   poll_error_logged, result_shown, runs, stops, thread_state, thread_bot>>

WorkerExit(t) ==
    /\ UNCHANGED <<primVars, domVars, botVars, tblVars, pageVars, logVars, winVars, log_text_error,
                   clkVars>>
    /\ is_alive(t)
    /\ thread_state' = [thread_state EXCEPT ![t] = "dead"]
    /\ \E returned \in {"True", "False"} :
          thread_result' = [thread_result EXCEPT ![t] = returned]
    /\ UNCHANGED <<is_running, automation_thread, cancel_event, escalate_timer_id,
                   finalize_timer_id, after_pending, after_count, bot, bot_driver,
                   poll_error_logged, result_shown, runs, stops, thread_bot,
                   thread_saw_cancel>>

NextCtl ==
    \/ StartAutomation
    \/ StopAutomation
    \/ EscalateStop
    \/ FinalizeStop
    \/ PollUpdates
    \/ CloseBrowserSession
    \/ \E t \in Threads : WorkerUseSession(t)
    \/ \E t \in Threads : WorkerCheckCancelled(t)
    \/ \E t \in Threads : WorkerExit(t)

\* the controller with the window's close button
NextClose == NextCtl \/ OnClosing

(***************************************************************************)
(* The stop escalation with its clock.  A callback scheduled with          *)
(* self.after runs when its delay has expired; the Tk main loop, idle      *)
(* between callbacks, does not let time pass beyond the due time of a      *)
(* pending one.  At most one callback of each kind is pending.             *)
(***************************************************************************)
MaxClock == 16

Due(fn) == \E e \in after_pending : e.fn = fn /\ e.due <= clock

Tick ==
    /\ clock < MaxClock
    /\ \A e \in after_pending : e.due > clock
    /\ clock' = clock + 1
    /\ UNCHANGED <<ctlVars, primVars, domVars, botVars, tblVars, pageVars, logVars, winVars,
                   outVars, stop_at>>

NextStop ==
    \/ StartAutomation
    \/ StopAutomation
    \/ Due("escalate") /\ EscalateStop
    \/ Due("finalize") /\ FinalizeStop
    \/ \E t \in Threads : WorkerExit(t)
    \/ Tick

(***************************************************************************)
(* interruptible_sleep and cancellable_wait.  Time is counted in tenths    *)
(* of a second.                                                            *)
(***************************************************************************)
MaxSleep == 12
MaxTimeout == 45

SleepTick == 5
WaitTick == 20

Min(a, b) == IF a < b THEN a ELSE b

PrimIdle ==
    /\ prim = "none"
    /\ duration = 0
    /\ elapsed = 0
    /\ wait_time = 0
    /\ prim_pc = "idle"
    /\ now = 0
    /\ wait_end = 0
    /\ set_at = -1

\* the timeouts of the WebDriverWait objects the helpers call directly, in
\* tenths of a second: 2 s (alert waits), 5 s (get_all_groups, the comment
\* field of the submit loops), 30 s (self.wait, used by select_domain)
DirectWaitTimeouts == {20, 50, 300}

InitPrim ==
    /\ prim \in {"interruptible_sleep", "cancellable_wait", "webdriver_wait"}
    /\ duration \in CASE prim = "interruptible_sleep" -> 0..MaxSleep
                     [] prim = "cancellable_wait" -> 0..MaxTimeout
                     [] OTHER -> DirectWaitTimeouts
    /\ elapsed = 0
    /\ wait_time = 0
    /\ prim_pc = "loop"
    /\ now = 0
    /\ wait_end = 0
    /\ set_at = -1

SleepWaitTime_WholeRemainder(seconds, el) == seconds - el

(***************************************************************************)
(* wait_time = min(0.5, seconds - elapsed)                                 *)
(***************************************************************************)
SleepWaitTime(seconds, el) == Min(SleepTick, seconds - el)

(***************************************************************************)
(* wait_time = min(2, timeout - elapsed)                                   *)
(***************************************************************************)
PollWaitTime(timeout, el) == Min(WaitTick, timeout - el)

(***************************************************************************)
(* The loop head of both functions: the test of 'elapsed', then            *)
(* check_cancelled(), then the wait is started.  A WebDriverWait called    *)
(* directly is one wait of its whole timeout, without a check.             *)
(***************************************************************************)
PrimLoopHead ==
    /\ UNCHANGED nonPrimVars
    /\ prim_pc = "loop"
    /\ IF elapsed < duration
       THEN IF cancel_event /\ prim # "webdriver_wait"
            THEN /\ prim_pc' = "cancelled"
                 /\ UNCHANGED <<wait_time, wait_end>>
            ELSE /\ wait_time' = CASE prim = "interruptible_sleep" ->
                                         SleepWaitTime(duration, elapsed)
                                   [] prim = "cancellable_wait" ->
                                         PollWaitTime(duration, elapsed)
                                   [] OTHER -> duration
                 /\ wait_end' = now + wait_time'
                 /\ prim_pc' = "waiting"
       ELSE /\ prim_pc' = IF prim = "interruptible_sleep" THEN "returned" ELSE "timeout"
            /\ UNCHANGED <<wait_time, wait_end>>
    /\ UNCHANGED <<prim, duration, elapsed, now, set_at, cancel_event>>

(***************************************************************************)
(* Time passes while the thread is blocked in cancel_event.wait or in      *)
(* WebDriverWait.until.                                                    *)
(***************************************************************************)
PrimTick ==
    /\ UNCHANGED nonPrimVars
    /\ prim_pc = "waiting"
    /\ now < wait_end
    /\ now' = now + 1
    /\ UNCHANGED <<prim, duration, elapsed, wait_time, prim_pc, wait_end, set_at, cancel_event>>

(***************************************************************************)
(* The controlling thread sets the token (cancel_event.set()).             *)
(***************************************************************************)
PrimTokenSet ==
    /\ UNCHANGED nonPrimVars
    /\ prim_pc \in {"loop", "waiting"}
    /\ ~cancel_event
    /\ cancel_event' = TRUE
    /\ set_at' = now
    /\ UNCHANGED <<prim, duration, elapsed, wait_time, prim_pc, now, wait_end>>

(***************************************************************************)
(* cancel_event.wait(wait_time) returns True once the token is set (the    *)
(* blocked thread resumes at some instant up to the deadline) and False    *)
(* at the deadline; a set that coincides with the deadline may be seen or  *)
(* missed.  True raises OperationCancelledException, False adds wait_time  *)
(* to elapsed.                                                             *)
(***************************************************************************)
SleepWaitReturns ==
    /\ UNCHANGED nonPrimVars
    /\ prim = "interruptible_sleep"
    /\ prim_pc = "waiting"
    /\ \/ /\ cancel_event
          /\ prim_pc' = "cancelled"
          /\ UNCHANGED elapsed
       \/ /\ now = wait_end
          /\ ~cancel_event \/ set_at = wait_end
          /\ elapsed' = elapsed + wait_time
          /\ prim_pc' = "loop"
    /\ UNCHANGED <<prim, duration, wait_time, now, wait_end, set_at, cancel_event>>

(***************************************************************************)
(* WebDriverWait(self.driver, wait_time).until(condition): returns the     *)
(* condition's value at the first poll that finds it satisfied, raises     *)
(* TimeoutException at the deadline; cancellable_wait returns the value    *)
(* or adds wait_time to elapsed.                                           *)
(***************************************************************************)
PollWaitReturns ==
    /\ UNCHANGED nonPrimVars
    /\ prim \in {"cancellable_wait", "webdriver_wait"}
    /\ prim_pc = "waiting"
    /\ \/ /\ prim_pc' = "returned"
          /\ UNCHANGED elapsed
       \/ /\ now = wait_end
          /\ elapsed' = elapsed + wait_time
          /\ prim_pc' = "loop"
    /\ UNCHANGED <<prim, duration, wait_time, now, wait_end, set_at, cancel_event>>

NextPrim ==
    \/ PrimLoopHead
    \/ PrimTick
    \/ PrimTokenSet
    \/ SleepWaitReturns
    \/ PollWaitReturns

(***************************************************************************)
(* Domain names are Python strings, modelled as sequences of characters.   *)
(***************************************************************************)
Sign == <<"S", "i", "g", "n">>
Auth == <<"A", "u", "t", "h">>

NoneStr == <<"None">>

(***************************************************************************)
(* DOMAIN_LIST of utils/settings.py.                                       *)
(***************************************************************************)
DOMAIN_LIST == {
    <<"N", "C", "R", "0", "0", "S", "i", "g", "n">>,
    <<"N", "C", "R", "0", "0", "A", "u", "t", "h">>,
    <<"C", "A", "R", "0", "0", "S", "i", "g", "n">>,
    <<"C", "A", "R", "0", "0", "A", "u", "t", "h">>,
    <<"R", "e", "g", "i", "o", "n", "1", "S", "i", "g", "n">>,
    <<"R", "e", "g", "i", "o", "n", "1", "A", "u", "t", "h">>,
    <<"R", "e", "g", "i", "o", "n", "2", "S", "i", "g", "n">>,
    <<"R", "e", "g", "i", "o", "n", "2", "A", "u", "t", "h">>,
    <<"R", "e", "g", "i", "o", "n", "3", "S", "i", "g", "n">>,
    <<"R", "e", "g", "i", "o", "n", "3", "A", "u", "t", "h">>,
    <<"R", "e", "g", "i", "o", "n", "4", "A", "S", "i", "g", "n">>,
    <<"R", "e", "g", "i", "o", "n", "4", "A", "A", "u", "t", "h">>,
    <<"R", "e", "g", "i", "o", "n", "4", "B", "S", "i", "g", "n">>,
    <<"R", "e", "g", "i", "o", "n", "4", "B", "A", "u", "t", "h">>,
    <<"R", "e", "g", "i", "o", "n", "5", "S", "i", "g", "n">>,
    <<"R", "e", "g", "i", "o", "n", "5", "A", "u", "t", "h">>,
    <<"R", "e", "g", "i", "o", "n", "6", "S", "i", "g", "n">>,
    <<"R", "e", "g", "i", "o", "n", "6", "A", "u", "t", "h">>,
    <<"R", "e", "g", "i", "o", "n", "7", "S", "i", "g", "n">>,
    <<"R", "e", "g", "i", "o", "n", "7", "A", "u", "t", "h">>,
    <<"R", "e", "g", "i", "o", "n", "8", "S", "i", "g", "n">>,
    <<"R", "e", "g", "i", "o", "n", "8", "A", "u", "t", "h">>,
    <<"R", "e", "g", "i", "o", "n", "9", "S", "i", "g", "n">>,
    <<"R", "e", "g", "i", "o", "n", "9", "A", "u", "t", "h">>,
    <<"R", "e", "g", "i", "o", "n", "1", "0", "S", "i", "g", "n">>,
    <<"R", "e", "g", "i", "o", "n", "1", "0", "A", "u", "t", "h">>,
    <<"R", "e", "g", "i", "o", "n", "1", "1", "S", "i", "g", "n">>,
    <<"R", "e", "g", "i", "o", "n", "1", "1", "A", "u", "t", "h">>,
    <<"R", "e", "g", "i", "o", "n", "1", "2", "S", "i", "g", "n">>,
    <<"R", "e", "g", "i", "o", "n", "1", "2", "A", "u", "t", "h">>,
    <<"R", "e", "g", "i", "o", "n", "1", "3", "S", "i", "g", "n">>,
    <<"R", "e", "g", "i", "o", "n", "1", "3", "A", "u", "t", "h">>,
    <<"B", "A", "R", "M", "M", "S", "i", "g", "n">>,
    <<"B", "A", "R", "M", "M", "A", "u", "t", "h">>,
    <<"B", "a", "t", "c", "h", "S", "i", "g", "n">>,
    <<"B", "a", "t", "c", "h", "S", "i", "g", "n", "C", "A", "R">>,
    <<"B", "a", "t", "c", "h", "S", "i", "g", "n", "R", "e", "g", "i", "o", "n", "1">>,
    <<"B", "a", "t", "c", "h", "S", "i", "g", "n", "R", "e", "g", "i", "o", "n", "2">>,
    <<"B", "a", "t", "c", "h", "S", "i", "g", "n", "R", "e", "g", "i", "o", "n", "3">>,
    <<"B", "a", "t", "c", "h", "S", "i", "g", "n", "R", "e", "g", "i", "o", "n", "4", "A">>,
    <<"B", "a", "t", "c", "h", "S", "i", "g", "n", "R", "e", "g", "i", "o", "n", "4", "B">>,
    <<"B", "a", "t", "c", "h", "S", "i", "g", "n", "R", "e", "g", "i", "o", "n", "5">>,
    <<"B", "a", "t", "c", "h", "S", "i", "g", "n", "R", "e", "g", "i", "o", "n", "6">>,
    <<"B", "a", "t", "c", "h", "S", "i", "g", "n", "R", "e", "g", "i", "o", "n", "7">>,
    <<"B", "a", "t", "c", "h", "S", "i", "g", "n", "R", "e", "g", "i", "o", "n", "8">>,
    <<"B", "a", "t", "c", "h", "S", "i", "g", "n", "R", "e", "g", "i", "o", "n", "9">>,
    <<"B", "a", "t", "c", "h", "S", "i", "g", "n", "R", "e", "g", "i", "o", "n", "1", "0">>,
    <<"B", "a", "t", "c", "h", "S", "i", "g", "n", "R", "e", "g", "i", "o", "n", "1", "1">>,
    <<"B", "a", "t", "c", "h", "S", "i", "g", "n", "R", "e", "g", "i", "o", "n", "1", "2">>,
    <<"M", "a", "i", "n", "S", "S", "L", "D", "o", "m", "a", "i", "n">>,
    <<"P", "h", "i", "l", "S", "i", "g", "n", "D", "o", "m", "a", "i", "n", "S", "i", "g", "n">>,
    <<"T", "e", "s", "t", "C", "e", "r", "t", "i", "f", "i", "c", "a", "t", "e", "S", "i", "g", "n">>
}

(***************************************************************************)
(* 'sub in s' of Python strings.                                           *)
(***************************************************************************)
Contains(s, sub) ==
    \E i \in 1..(Len(s) - Len(sub) + 1) : SubSeq(s, i, i + Len(sub) - 1) = sub

(***************************************************************************)
(* s.replace(old, new): every non-overlapping occurrence of old, found     *)
(* from left to right, is replaced by new.                                 *)
(***************************************************************************)
RECURSIVE Replace(_, _, _)
Replace(s, old, new) ==
    IF Len(s) < Len(old) THEN s
    ELSE IF SubSeq(s, 1, Len(old)) = old
         THEN new \o Replace(SubSeq(s, Len(old) + 1, Len(s)), old, new)
         ELSE <<Head(s)>> \o Replace(Tail(s), old, new)

(***************************************************************************)
(* GovCAApprovalBot.get_counterpart_domain.                                *)
(***************************************************************************)
\* a lookup that never finds a counterpart
get_counterpart_domain_NoCounterpart(domain) == NoneStr

get_counterpart_domain(domain) ==
    IF Contains(domain, Sign) THEN Replace(domain, Sign, Auth)
    ELSE IF Contains(domain, Auth) THEN Replace(domain, Auth, Sign)
    ELSE NoneStr

(***************************************************************************)
(* The names the function is applied to: DOMAIN_LIST and every             *)
(* concatenation of at most MaxParts fragments.                            *)
(***************************************************************************)
MaxParts == 3

Fragments == {Sign, Auth, <<"S", "i">>, <<"g", "n">>, <<"A", "u">>, <<"t", "h">>, <<"0">>}

RECURSIVE Concatenations(_)
Concatenations(n) ==
    IF n = 0 THEN {<<>>}
    ELSE LET shorter == Concatenations(n - 1)
         IN  shorter \cup {f \o c : f \in Fragments, c \in shorter}

DomainInputs == DOMAIN_LIST \cup Concatenations(MaxParts)

DomIdle ==
    /\ domain_name = <<>>
    /\ counterpart = NoneStr
    /\ counterpart2 = NoneStr
    /\ dom_pc = "idle"

InitDom ==
    /\ domain_name \in DomainInputs
    /\ counterpart = NoneStr
    /\ counterpart2 = NoneStr
    /\ dom_pc = "start"

CounterpartOnce ==
    /\ UNCHANGED nonDomVars
    /\ dom_pc = "start"
    /\ counterpart' = get_counterpart_domain(domain_name)
    /\ dom_pc' = "once"
    /\ UNCHANGED <<domain_name, counterpart2>>

CounterpartTwice ==
    /\ UNCHANGED nonDomVars
    /\ dom_pc = "once"
    /\ counterpart # NoneStr
    /\ counterpart2' = get_counterpart_domain(counterpart)
    /\ dom_pc' = "twice"
    /\ UNCHANGED <<domain_name, counterpart>>

NextDom ==
    \/ CounterpartOnce
    \/ CounterpartTwice

(***************************************************************************)
(* One workflow run of GovCAApprovalBot on a worker thread.                *)
(* The remote surface answers every call in one of the ways the code       *)
(* distinguishes; the numbers below bound what it presents.                *)
(***************************************************************************)
MaxRequests == 2
MaxBatches == 2
MaxOptions == 2
MaxGroups == 2
MaxDomains == 2
MaxRemotePages == 2
MaxFingerprints == 2

max_pages == 50

\* while current_page <= max_pages
WithinPageLimit_OneMore(current_page) == current_page <= max_pages + 1

WithinPageLimit(current_page) == current_page <= max_pages

max_batches == 20
BATCH_SIZE == 20

Workflows == {"run_approval_process", "run_rejection_process",
              "run_revoke_certificate_approval", "run_assign_user_group",
              "run_assign_user_groups_all_domains"}

ApprovalWorkflows == {"run_approval_process", "run_rejection_process"}

\* Python's bool is a subclass of int: True == 1 and False == 0, and a value
\* is tested by its truth (`if self.select_domain(domain)`, `if not groups`)
True == 1
False == 0
PyBool == {False, True}
Truthy(value) == value # 0

OperationCancelledException == "OperationCancelledException"
Exception == "Exception"

NCR00Sign == <<"N", "C", "R", "0", "0", "S", "i", "g", "n">>
MainSSLDomain == <<"M", "a", "i", "n", "S", "S", "L", "D", "o", "m", "a", "i", "n">>

RunDomains == {NCR00Sign, MainSSLDomain}

UserIds == {"u1", "u2"}

\* the user lists a run is started with: none (all pending users), one, two
UserLists == {{}, {"u1"}, UserIds}

OtherUser == <<"other", "_Sign">>

\* a list of specific users longer than the batch limit of a workflow
ManyUsers ==
    {"m01", "m02", "m03", "m04", "m05", "m06", "m07", "m08", "m09", "m10", "m11",
     "m12", "m13", "m14", "m15", "m16", "m17", "m18", "m19", "m20", "m21"}

(***************************************************************************)
(* suffix = "_Sign" if "Sign" in domain else "_Auth", and the set of       *)
(* f"{user}{suffix}" built from specific_users.                            *)
(***************************************************************************)
Suffix(domain) == IF Contains(domain, Sign) THEN "_Sign" ELSE "_Auth"

Targets(domain, users) == {<<u, Suffix(domain)>> : u \in users}

(***************************************************************************)
(* report_progress(current, total, message, phase, total_phases, label):   *)
(* the six values are handed to self.progress_callback.  A callback built  *)
(* by ProgressTracker.get_callback takes three parameters and raises       *)
(* TypeError; the bot's default callback takes any.  The model keeps the   *)
(* first and the last snapshot handed over and the last phase before it.   *)
(***************************************************************************)
Snapshot(current, total, phase, total_phases) ==
    [current |-> current, total |-> total, phase |-> phase, total_phases |-> total_phases]

NoSnapshot == Snapshot(0, 0, None, None)

NothingEmitted ==
    [any |-> FALSE, first |-> NoSnapshot, prev_phase |-> None, last |-> NoSnapshot]

Emit(s) ==
    [any |-> TRUE,
     first |-> IF emitted.any THEN emitted.first ELSE s,
     prev_phase |-> IF emitted.last.phase # None THEN emitted.last.phase
                    ELSE emitted.prev_phase,
     last |-> s]

CallbackRaises == progress_callback = "three_fields"

(***************************************************************************)
(* Exceptions.  Region names the try statement enclosing the point where   *)
(* an exception is raised; Handler gives the control point of the except   *)
(* clause that catches it, or "propagate" when the function has none.      *)
(***************************************************************************)
Handler_CancellationRetriesLoop(region, exc) ==
    CASE region = "workflow" ->
            IF exc = OperationCancelledException THEN "run_cancelled" ELSE "run_error"
      [] region = "select_specific_users" -> "ssu_except"
      [] region = "approve_users" ->
            IF exc = OperationCancelledException THEN "au_loop" ELSE "au_except"
      [] region = "assign_users_to_group" -> "aug_except"
      [] region = "domain_loop" -> "raad_except"
      [] OTHER -> "propagate"

Handler(region, exc) ==
    CASE region = "workflow" ->
            IF exc = OperationCancelledException THEN "run_cancelled" ELSE "run_error"
      [] region = "select_specific_users" -> "ssu_except"
      [] region = "approve_users" ->
            IF exc = OperationCancelledException THEN "propagate" ELSE "au_except"
      [] region = "assign_users_to_group" -> "aug_except"
      [] region = "domain_loop" -> "raad_except"
      [] OTHER -> "propagate"

RECURSIVE Unwind(_, _, _)
Unwind(stk, region, exc) ==
    LET h == Handler(region, exc)
    IN  IF h # "propagate" THEN [pc |-> h, stack |-> stk]
        ELSE Unwind(Tail(stk), Head(stk).region, exc)

Raise(exc, region) ==
    LET u == Unwind(call_stack, region, exc)
    IN  /\ bot_pc' = u.pc
        /\ call_stack' = u.stack

Goto(label) ==
    /\ bot_pc' = label
    /\ UNCHANGED call_stack

Call(entry, region, label) ==
    /\ bot_pc' = entry
    /\ call_stack' = <<[ret |-> label, region |-> region]>> \o call_stack

Return ==
    /\ bot_pc' = Head(call_stack).ret
    /\ call_stack' = Tail(call_stack)

WorkflowReturn(v) ==
    /\ bot_pc' = "done"
    /\ result' = v
    /\ UNCHANGED call_stack

(***************************************************************************)
(* report_progress followed by the rest of the step.                       *)
(***************************************************************************)
ReportProgress(region, current, total, phase, total_phases, Rest) ==
    /\ emitted' = Emit(Snapshot(current, total, phase, total_phases))
    /\ IF CallbackRaises
       THEN Raise(Exception, region) /\ UNCHANGED dataVars
       ELSE Rest

inputVars == <<workflow, progress_callback, remote_surface>>

(***************************************************************************)
(* The remote surface of a run without failures: every target in the list  *)
(* handed to select_specific_users is pending and shown on its page, every *)
(* helper succeeds, every checkbox can be clicked and the approval form    *)
(* presents one request per selected user.  With "primary_empty" the       *)
(* search of the domain the run starts in finds nothing.                   *)
(***************************************************************************)
Cooperative == remote_surface \notin {"any", "endless"}

PageOfTarget(username) ==
    IF remote_surface = "one_per_page" /\ username[1] = "u2" THEN 2 ELSE 1

LastPage == IF remote_surface = "one_per_page" THEN 2 ELSE 1

HelperSucceeds(h) ==
    CASE h = "has_next_page" -> ssu.current_page < LastPage
      [] h = "search_pending_users" ->
            ~(remote_surface = "primary_empty" /\ run.current_phase = 1)
      [] OTHER -> TRUE

PendingOnPage(usernames, page) ==
    IF remote_surface = "one_per_batch"
    THEN IF page = 1 /\ usernames # {} THEN {CHOOSE username \in usernames : TRUE} ELSE {}
    ELSE {username \in usernames : PageOfTarget(username) = page}
            \cup (IF page = 1 THEN {OtherUser} ELSE {})

(***************************************************************************)
(* Guarded helpers: check_cancelled() at entry, outside any try, then a    *)
(* body inside try/except Exception.  An exception raised in the body --   *)
(* OperationCancelledException included, it derives from Exception -- is   *)
(* logged and turned into the failure value.  Every path through the body  *)
(* reaches a cancellation check (wait_for_page_ready, interruptible_sleep, *)
(* check_cancelled).                                                       *)
(***************************************************************************)
select_domain == [failure |-> False, results |-> PyBool]

navigate_to_user_list == [failure |-> False, results |-> PyBool]

navigate_to_approval_request_list == [failure |-> False, results |-> PyBool]

navigate_to_assign_user_group == [failure |-> False, results |-> PyBool]

search_pending_users == [failure |-> False, results |-> PyBool]

select_all_pending_users == [failure |-> 0, results |-> 0..MaxOptions]

has_next_page ==
    [failure |-> False,
     results |-> IF remote_surface = "endless" \/ ssu.current_page < MaxRemotePages
                 THEN PyBool ELSE {False}]

GuardedHelper(h) ==
    CASE h = "select_domain" -> select_domain
      [] h = "navigate_to_user_list" -> navigate_to_user_list
      [] h = "navigate_to_approval_request_list" -> navigate_to_approval_request_list
      [] h = "navigate_to_assign_user_group" -> navigate_to_assign_user_group
      [] h = "search_pending_users" -> search_pending_users
      [] h = "select_all_pending_users" -> select_all_pending_users
      [] h = "has_next_page" -> has_next_page

CallHelper(h, region, label) ==
    /\ callee' = h
    /\ Call("helper_entry", region, label)

HelperEntry ==
    /\ UNCHANGED nonBotVars
    /\ bot_pc = "helper_entry"
    /\ IF cancel_event
       THEN Raise(OperationCancelledException, "none")
       ELSE Goto(IF callee = "go_to_next_page" THEN "gnp_find" ELSE "helper_body")
    /\ ret' = None
    /\ ret_matched' = {}
    /\ UNCHANGED <<inputVars, callee, run, ssu, au, aug, prd, result, emitted>>

HelperBody ==
    /\ UNCHANGED nonBotVars
    /\ bot_pc = "helper_body"
    /\ Return
    /\ IF cancel_event
       THEN ret' = GuardedHelper(callee).failure
       ELSE /\ ret' \in GuardedHelper(callee).results
            /\ Cooperative => (Truthy(ret') <=> HelperSucceeds(callee))
    /\ callee' = "none"
    /\ UNCHANGED <<inputVars, ret_matched, run, ssu, au, aug, prd, result, emitted>>

(***************************************************************************)
(* go_to_next_page: check_cancelled() at entry (HelperEntry), then inside  *)
(* try / except Exception: find the next control, capture the table        *)
(* fingerprint, and for attempt in range(3): check_cancelled(), click,     *)
(* wait_for_table_loaded, read the fingerprint again and return True when  *)
(* it differs from the one captured before the first click; otherwise      *)
(* sleep 2 s and find the control again.  _get_table_fingerprint returns   *)
(* None when the read fails.  Every exception raised inside, the           *)
(* cancellation included, is logged and turned into False.                 *)
(***************************************************************************)
NoFingerprint == 0

\* for attempt in range(3)
click_attempts == 3

GnpIdle ==
    [attempt |-> 0, fingerprint_before |-> NoFingerprint,
     fingerprint_after |-> NoFingerprint]

PageIdle == gnp = GnpIdle

\* a click that is taken for a page change without reading the table
PageChanged_BlindClick(fingerprint_before, fingerprint_after) == TRUE

\* if fingerprint_before != fingerprint_after
PageChanged(fingerprint_before, fingerprint_after) ==
    fingerprint_before # fingerprint_after

GnpReturn(value) ==
    /\ Return
    /\ ret' = value
    /\ callee' = "none"
    /\ gnp' = GnpIdle

go_to_next_page ==
    \* next_btn; previous_state; fingerprint_before = self._get_table_fingerprint()
    \/ /\ UNCHANGED <<ctlVars, primVars, domVars, tblVars, logVars, winVars, outVars, clkVars,
                      sess>>
       /\ bot_pc = "gnp_find"
       /\ \E found \in BOOLEAN, fingerprint_before \in 0..MaxFingerprints :
             /\ Cooperative => (found /\ fingerprint_before = 1)
             /\ IF found
                THEN /\ gnp' = [GnpIdle EXCEPT !.fingerprint_before = fingerprint_before]
                     /\ Goto("gnp_click")
                     /\ UNCHANGED <<callee, ret>>
                ELSE GnpReturn(False)
       /\ UNCHANGED <<inputVars, ret_matched, run, ssu, au, aug, prd, result, emitted>>

    \* for attempt in range(3): check_cancelled(); click; wait_for_table_loaded;
    \* fingerprint_after = self._get_table_fingerprint()
    \/ /\ UNCHANGED <<ctlVars, primVars, domVars, tblVars, logVars, winVars, outVars, clkVars,
                      sess>>
       /\ bot_pc = "gnp_click"
       /\ IF gnp.attempt = click_attempts \/ cancel_event
          THEN GnpReturn(False)
          ELSE \E raised \in BOOLEAN, fingerprint_after \in 0..MaxFingerprints :
                  /\ Cooperative => (~raised /\ fingerprint_after = 2)
                  /\ IF raised
                     THEN GnpReturn(False)
                     ELSE /\ gnp' = [gnp EXCEPT !.attempt = @ + 1,
                                                !.fingerprint_after = fingerprint_after]
                          /\ Goto("gnp_verify")
                          /\ UNCHANGED <<callee, ret>>
       /\ UNCHANGED <<inputVars, ret_matched, run, ssu, au, aug, prd, result, emitted>>

    \* return True / interruptible_sleep(2); find the control again or break
    \/ /\ UNCHANGED <<ctlVars, primVars, domVars, tblVars, logVars, winVars, outVars, clkVars,
                      sess>>
       /\ bot_pc = "gnp_verify"
       /\ IF PageChanged(gnp.fingerprint_before, gnp.fingerprint_after)
          THEN GnpReturn(True)
          ELSE IF cancel_event
               THEN GnpReturn(False)
               ELSE \E found \in BOOLEAN :
                       IF found
                       THEN Goto("gnp_click") /\ UNCHANGED <<callee, ret, gnp>>
                       ELSE GnpReturn(False)
       /\ UNCHANGED <<inputVars, ret_matched, run, ssu, au, aug, prd, result, emitted>>

(***************************************************************************)
(* ensure_valid_session, setup_browser and navigate_to_govca.  sess.driver *)
(* is self.driver: "none" or "live".  is_session_valid() is False without  *)
(* a driver and otherwise what the browser answers.  No function of the    *)
(* three catches what it does not re-raise: a propagating exception        *)
(* unwinds to the caller's handler.  The locals are gone after the call.   *)
(***************************************************************************)
max_retries == 2
Backoff == 5

SessLocals(driver) ==
    [driver |-> driver, valid |-> FALSE, quits |-> 0, created |-> 0,
     attempt |-> 0, failure |-> "none", slept |-> 0]

SessIdle == sess = SessLocals("none")

\* a session that is never taken for valid
Reuse_Never(valid) == FALSE

\* if self.is_session_valid(): return True
Reuse(valid) == valid

\* every exception is retried while attempts are left
Retry_AnyFailure(failure, attempt) == attempt < max_retries - 1

\* nssFailure / neterror in the message of the exception, and attempts left
Retry(failure, attempt) == failure = "tls_failure" /\ attempt < max_retries - 1

SessReturn(value) ==
    /\ Return
    /\ ret' = value
    /\ sess' = SessLocals(sess.driver)

SessRaise(exc) ==
    /\ Raise(exc, "none")
    /\ sess' = SessLocals(sess.driver)
    /\ UNCHANGED ret

ensure_valid_session ==
    \* self.is_session_valid()
    \/ /\ UNCHANGED <<ctlVars, primVars, domVars, tblVars, logVars, winVars, outVars, clkVars,
                      gnp>>
       /\ bot_pc = "ensure_valid_session"
       /\ \E valid \in BOOLEAN :
             /\ valid => sess.driver = "live"
             /\ sess' = [sess EXCEPT !.valid = valid]
       /\ Goto("evs_checked")
       /\ UNCHANGED <<inputVars, dataVars, emitted>>

    \* return True / self.driver.quit(); self.driver = None; self.setup_browser()
    \/ /\ UNCHANGED <<ctlVars, primVars, domVars, tblVars, logVars, winVars, outVars, clkVars,
                      gnp>>
       /\ bot_pc = "evs_checked"
       /\ IF Reuse(sess.valid)
          THEN SessReturn(True)
          ELSE /\ sess' = [sess EXCEPT !.driver = "none",
                                       !.quits = IF sess.driver = "live" THEN 1 ELSE 0]
               /\ Goto("setup_browser")
               /\ UNCHANGED ret
       /\ UNCHANGED <<inputVars, callee, ret_matched, run, ssu, au, aug, prd, result, emitted>>

\* check_cancelled(); self.driver = webdriver.Firefox(...); except Exception: raise
setup_browser ==
    /\ UNCHANGED <<ctlVars, primVars, domVars, tblVars, logVars, winVars, outVars, clkVars,
                   gnp>>
    /\ bot_pc = "setup_browser"
    /\ IF cancel_event
       THEN SessRaise(OperationCancelledException)
       ELSE \E started \in BOOLEAN :
               /\ Cooperative => started
               /\ IF started
                  THEN /\ sess' = [sess EXCEPT !.driver = "live", !.created = @ + 1]
                       /\ Goto("navigate_to_govca")
                       /\ UNCHANGED ret
                  ELSE SessRaise(Exception)
    /\ UNCHANGED <<inputVars, callee, ret_matched, run, ssu, au, aug, prd, result, emitted>>

navigate_to_govca ==
    \* self.check_cancelled(); max_retries = 2
    \/ /\ UNCHANGED <<ctlVars, primVars, domVars, tblVars, logVars, winVars, outVars, clkVars,
                      gnp>>
       /\ bot_pc = "navigate_to_govca"
       /\ IF cancel_event
          THEN SessRaise(OperationCancelledException)
          ELSE Goto("ntg_attempt") /\ UNCHANGED <<ret, sess>>
       /\ UNCHANGED <<inputVars, callee, ret_matched, run, ssu, au, aug, prd, result, emitted>>

    \* for attempt in range(max_retries): try: self.driver.get(...);
    \* interruptible_sleep; check_cancelled(); the title and the page source
    \/ /\ UNCHANGED <<ctlVars, primVars, domVars, tblVars, logVars, winVars, outVars, clkVars,
                      gnp>>
       /\ bot_pc = "ntg_attempt"
       /\ IF sess.attempt >= max_retries
          THEN SessReturn(False)
          ELSE /\ \E outcome \in {"connected", "rejection", "tls_failure", "other",
                                  "cancelled"} :
                     /\ Cooperative => outcome \in {"connected", "cancelled"}
                     /\ cancel_event => outcome \notin {"connected", "rejection"}
                     /\ outcome = "cancelled" => cancel_event
                     /\ sess' = [sess EXCEPT !.failure = outcome]
               /\ Goto("ntg_outcome")
               /\ UNCHANGED ret
       /\ UNCHANGED <<inputVars, callee, ret_matched, run, ssu, au, aug, prd, result, emitted>>

    \* return True / return False / except Exception: interruptible_sleep(5);
    \* continue, or raise
    \/ /\ UNCHANGED <<ctlVars, primVars, domVars, tblVars, logVars, winVars, outVars, clkVars,
                      gnp>>
       /\ bot_pc = "ntg_outcome"
       /\ CASE sess.failure = "connected" -> SessReturn(True)
            [] sess.failure = "rejection" -> SessReturn(False)
            [] sess.failure = "cancelled" -> SessRaise(OperationCancelledException)
            [] OTHER ->
                  IF Retry(sess.failure, sess.attempt)
                  THEN IF cancel_event
                       THEN SessRaise(OperationCancelledException)
                       ELSE /\ sess' = [sess EXCEPT !.attempt = @ + 1,
                                                    !.failure = "none",
                                                    !.slept = @ + Backoff]
                            /\ Goto("ntg_attempt")
                            /\ UNCHANGED ret
                  ELSE SessRaise(Exception)
       /\ UNCHANGED <<inputVars, callee, ret_matched, run, ssu, au, aug, prd, result, emitted>>

(***************************************************************************)
(* get_all_groups: check_cancelled and interruptible_sleep(3) outside any  *)
(* try, then plain waits; returns the list of groups ([] on error).        *)
(***************************************************************************)
get_all_groups ==
    /\ UNCHANGED nonBotVars
    /\ bot_pc = "get_all_groups"
    /\ IF cancel_event
       THEN Raise(OperationCancelledException, "none") /\ UNCHANGED ret
       ELSE Return /\ ret' \in 0..MaxGroups
    /\ UNCHANGED <<inputVars, callee, ret_matched, run, ssu, au, aug, prd, result, emitted>>

(***************************************************************************)
(* get_all_domains: check_cancelled at entry, then a plain wait inside     *)
(* try/except Exception; returns the list of domains ([] on error).        *)
(***************************************************************************)
get_all_domains ==
    /\ UNCHANGED nonBotVars
    /\ bot_pc = "get_all_domains"
    /\ IF cancel_event
       THEN Raise(OperationCancelledException, "none") /\ UNCHANGED ret
       ELSE Return /\ ret' \in 0..MaxDomains
    /\ UNCHANGED <<inputVars, callee, ret_matched, run, ssu, au, aug, prd, result, emitted>>

(***************************************************************************)
(* select_specific_users(usernames).  A page shows rows (checkboxes) with  *)
(* a username each; the remote chooses what every page shows.             *)
(***************************************************************************)
SsuIdle ==
    [usernames |-> {}, selected_count |-> 0, matched_users |-> {},
     not_found_users |-> {}, current_page |-> 1, rows |-> {},
     state |-> "idle", returned_count |-> 0, returned_matched |-> {}]

\* a batch that removes nothing
Remaining_NothingRemoved(usernames, matched) == usernames

\* usernames_to_approve -= matched
Remaining(usernames, matched) == usernames \ matched

\* a call that loses the list of targets
SsuCall_WithoutTargets(usernames) == [SsuIdle EXCEPT !.state = "called"]

SsuCall(usernames) == [SsuIdle EXCEPT !.usernames = usernames, !.state = "called"]

select_specific_users ==
    \/ /\ UNCHANGED nonBotVars
       /\ bot_pc = "select_specific_users"
       /\ IF cancel_event
          THEN Raise(OperationCancelledException, "none") /\ UNCHANGED ssu
          ELSE /\ ssu' = [ssu EXCEPT !.selected_count = 0, !.matched_users = {},
                                     !.not_found_users = ssu.usernames,
                                     !.current_page = 1]
               /\ Goto("ssu_page")
       /\ ret' = None
       /\ ret_matched' = {}
       /\ UNCHANGED <<inputVars, callee, run, au, aug, prd, result, emitted>>

    \* while current_page <= max_pages: check_cancelled(); interruptible_sleep(5)
    \/ /\ UNCHANGED nonBotVars
       /\ bot_pc = "ssu_page"
       /\ IF ~WithinPageLimit(ssu.current_page) THEN Goto("ssu_return")
          ELSE IF cancel_event
               THEN Raise(OperationCancelledException, "select_specific_users")
               ELSE Goto("ssu_wait")
       /\ UNCHANGED <<inputVars, dataVars, emitted>>

    \* cancellable_wait(15, checkbox present) inside try / bare except: break
    \/ /\ UNCHANGED nonBotVars
       /\ bot_pc = "ssu_wait"
       /\ IF cancel_event THEN Goto("ssu_return") /\ UNCHANGED ssu
          ELSE \E page \in (IF Cooperative
                              THEN {PendingOnPage(ssu.usernames, ssu.current_page)}
                              ELSE SUBSET (ssu.usernames \cup {OtherUser})) :
                  /\ IF page = {} THEN Goto("ssu_return") /\ UNCHANGED ssu
                     ELSE /\ ssu' = [ssu EXCEPT !.rows = page]
                          /\ Goto("ssu_read")
       /\ UNCHANGED <<inputVars, callee, ret, ret_matched, run, au, aug, prd, result, emitted>>

    \* interruptible_sleep(3); page_usernames; matches_on_page
    \/ /\ UNCHANGED nonBotVars
       /\ bot_pc = "ssu_read"
       /\ IF cancel_event
          THEN Raise(OperationCancelledException, "select_specific_users")
          ELSE IF ssu.rows \cap ssu.usernames # {} THEN Goto("ssu_select")
               ELSE Goto("ssu_paginate")
       /\ UNCHANGED <<inputVars, dataVars, emitted>>

    \* for i in range(checkbox_count): check_cancelled(); click the checkbox of
    \* a row whose username is a target not matched yet, if it can be clicked
    \/ /\ UNCHANGED nonBotVars
       /\ bot_pc = "ssu_select"
       /\ IF ssu.rows = {} THEN Goto("ssu_selected") /\ UNCHANGED ssu
          ELSE IF cancel_event
               THEN Raise(OperationCancelledException, "select_specific_users")
                    /\ UNCHANGED ssu
               ELSE \E clickable \in BOOLEAN :
                    LET found_username == CHOOSE row \in ssu.rows : TRUE
                    IN
                       /\ Cooperative => clickable
                       /\ Goto("ssu_select")
                       /\ IF /\ found_username \in ssu.usernames
                             /\ found_username \notin ssu.matched_users
                             /\ clickable
                          THEN ssu' = [ssu EXCEPT
                                   !.rows = @ \ {found_username},
                                   !.selected_count = @ + 1,
                                   !.matched_users = @ \cup {found_username},
                                   !.not_found_users = @ \ {found_username}]
                          ELSE ssu' = [ssu EXCEPT !.rows = @ \ {found_username}]
       /\ UNCHANGED <<inputVars, callee, ret, ret_matched, run, au, aug, prd, result, emitted>>

    \* if selected_count > 0: break / if len(not_found_users) == 0: break
    \/ /\ UNCHANGED nonBotVars
       /\ bot_pc = "ssu_selected"
       /\ IF ssu.selected_count > 0 \/ ssu.not_found_users = {}
          THEN Goto("ssu_return")
          ELSE Goto("ssu_paginate")
       /\ UNCHANGED <<inputVars, dataVars, emitted>>

    \* if selected_count == 0 and len(not_found_users) > 0: if self.has_next_page()
    \/ /\ UNCHANGED nonBotVars
       /\ bot_pc = "ssu_paginate"
       /\ IF ssu.selected_count = 0 /\ ssu.not_found_users # {}
          THEN CallHelper("has_next_page", "select_specific_users", "ssu_has_next")
          ELSE Goto("ssu_return") /\ UNCHANGED callee
       /\ UNCHANGED <<inputVars, ret, ret_matched, run, ssu, au, aug, prd, result, emitted>>

    \* if self.go_to_next_page()
    \/ /\ UNCHANGED nonBotVars
       /\ bot_pc = "ssu_has_next"
       /\ IF Truthy(ret)
          THEN CallHelper("go_to_next_page", "select_specific_users", "ssu_went")
          ELSE Goto("ssu_return") /\ UNCHANGED callee
       /\ UNCHANGED <<inputVars, ret, ret_matched, run, ssu, au, aug, prd, result, emitted>>

    \* current_page += 1; continue / break
    \/ /\ UNCHANGED nonBotVars
       /\ bot_pc = "ssu_went"
       /\ IF Truthy(ret)
          THEN ssu' = [ssu EXCEPT !.current_page = @ + 1] /\ Goto("ssu_page")
          ELSE Goto("ssu_return") /\ UNCHANGED ssu
       /\ UNCHANGED <<inputVars, callee, ret, ret_matched, run, au, aug, prd, result, emitted>>

    \* return selected_count, matched_users
    \/ /\ UNCHANGED nonBotVars
       /\ bot_pc = "ssu_return"
       /\ Return
       /\ ret' = ssu.selected_count
       /\ ret_matched' = ssu.matched_users
       /\ ssu' = [ssu EXCEPT !.state = "returned",
                             !.usernames = {}, !.not_found_users = {},
                             !.current_page = 1, !.rows = {},
                             !.returned_count = ssu.selected_count,
                             !.returned_matched = ssu.matched_users]
       /\ UNCHANGED <<inputVars, callee, run, au, aug, prd, result, emitted>>

    \* except Exception: return 0, set()
    \/ /\ UNCHANGED nonBotVars
       /\ bot_pc = "ssu_except"
       /\ Return
       /\ ret' = 0
       /\ ret_matched' = {}
       /\ ssu' = [ssu EXCEPT !.state = "returned",
                             !.usernames = {}, !.not_found_users = {},
                             !.current_page = 1, !.rows = {},
                             !.returned_count = 0,
                             !.returned_matched = {}]
       /\ UNCHANGED <<inputVars, callee, run, au, aug, prd, result, emitted>>

(***************************************************************************)
(* approve_users / reject_users (the two differ in the button pressed and  *)
(* in the current value of the indeterminate snapshot).  False and 0 are   *)
(* both modelled by 0: the callers test `approved_count > 0` or truth.     *)
(* The locals of a call are gone once it has returned.                     *)
(***************************************************************************)
AuIdle == [approved_count |-> 0, request_number |-> 1]

approve_users ==
    \/ /\ UNCHANGED nonBotVars
       /\ bot_pc = "approve_users"
       /\ IF cancel_event
          THEN Raise(OperationCancelledException, "none") /\ UNCHANGED au
          ELSE \E outcome \in {"form", "error_page", "raised"} :
                  /\ Cooperative => outcome = "form"
                  /\ CASE outcome = "form" -> Goto("au_loop") /\ au' = AuIdle
                       [] outcome = "error_page" -> Return /\ UNCHANGED au
                       [] outcome = "raised" ->
                             Raise(Exception, "approve_users") /\ UNCHANGED au
       /\ ret' = 0
       /\ ret_matched' = {}
       /\ UNCHANGED <<inputVars, callee, run, ssu, aug, prd, result, emitted>>

    \* while True: check_cancelled(); report_progress(request_number, -1, ...)
    \/ /\ UNCHANGED nonBotVars
       /\ bot_pc = "au_loop"
       /\ IF cancel_event
          THEN Raise(OperationCancelledException, "approve_users")
               /\ UNCHANGED <<dataVars, emitted>>
          ELSE ReportProgress("approve_users",
                   IF workflow = "run_rejection_process" THEN au.approved_count
                   ELSE au.request_number,
                   -1, None, None,
                   Goto("au_comment") /\ UNCHANGED dataVars)
       /\ UNCHANGED inputVars

    \* the comment field (failures only logged), then check_cancelled()
    \/ /\ UNCHANGED nonBotVars
       /\ bot_pc = "au_comment"
       /\ IF cancel_event
          THEN Raise(OperationCancelledException, "approve_users")
          ELSE Goto("au_submit")
       /\ UNCHANGED <<inputVars, dataVars, emitted>>

    \* try: cancellable_wait(15, btnApprove clickable); click; approved_count += 1
    \* except Exception: return False if request_number == 1, else break
    \/ /\ UNCHANGED nonBotVars
       /\ bot_pc = "au_submit"
       /\ \E outcome \in {"clicked", "not_clickable"} :
             /\ Cooperative => outcome = "clicked"
             /\ IF cancel_event \/ outcome = "not_clickable"
                THEN /\ IF au.request_number = 1
                        THEN Return /\ ret' = 0
                        ELSE Goto("au_completed") /\ UNCHANGED ret
                     /\ UNCHANGED au
                ELSE /\ au' = [au EXCEPT !.approved_count = @ + 1]
                     /\ Goto("au_transition")
                     /\ UNCHANGED ret
       /\ UNCHANGED <<inputVars, callee, ret_matched, run, ssu, aug, prd, result, emitted>>

    \* interruptible_sleep(7); check_cancelled(); the page that follows
    \/ /\ UNCHANGED nonBotVars
       /\ bot_pc = "au_transition"
       /\ IF cancel_event
          THEN Raise(OperationCancelledException, "approve_users") /\ UNCHANGED au
          ELSE \E outcome \in {"next_request", "finished", "approve_visible", "raised"} :
                  /\ Cooperative
                        => outcome = IF au.approved_count < run.selected
                                     THEN "next_request" ELSE "finished"
                  /\ CASE outcome = "next_request" ->
                             /\ au.request_number < MaxRequests
                             /\ au' = [au EXCEPT !.request_number = @ + 1]
                             /\ Goto("au_loop")
                       [] outcome = "finished" -> Goto("au_completed") /\ UNCHANGED au
                       [] outcome = "approve_visible" -> Goto("au_stabilize") /\ UNCHANGED au
                       [] outcome = "raised" ->
                             Raise(Exception, "approve_users") /\ UNCHANGED au
       /\ UNCHANGED <<inputVars, callee, ret, ret_matched, run, ssu, aug, prd, result, emitted>>

    \* interruptible_sleep(5) and a second look, inside try / bare except: pass
    \/ /\ UNCHANGED nonBotVars
       /\ bot_pc = "au_stabilize"
       /\ \E loaded \in BOOLEAN :
             IF ~cancel_event /\ loaded /\ au.request_number < MaxRequests
             THEN au' = [au EXCEPT !.request_number = @ + 1] /\ Goto("au_loop")
             ELSE Goto("au_completed") /\ UNCHANGED au
       /\ UNCHANGED <<inputVars, callee, ret, ret_matched, run, ssu, aug, prd, result, emitted>>

    \* report_progress(approved_count, approved_count, "Completed"); return approved_count
    \/ /\ UNCHANGED nonBotVars
       /\ bot_pc = "au_completed"
       /\ ReportProgress("approve_users", au.approved_count, au.approved_count, None, None,
               /\ Return
               /\ ret' = au.approved_count
               /\ au' = AuIdle
               /\ UNCHANGED <<callee, ret_matched, run, ssu, aug, prd, result>>)
       /\ UNCHANGED inputVars

    \* except Exception: return 0
    \/ /\ UNCHANGED nonBotVars
       /\ bot_pc = "au_except"
       /\ Return
       /\ ret' = 0
       /\ au' = AuIdle
       /\ UNCHANGED <<inputVars, callee, ret_matched, run, ssu, aug, prd, result, emitted>>

(***************************************************************************)
(* assign_users_to_group.                                                  *)
(***************************************************************************)
AugIdle == [total_users |-> 0, assigned |-> 0, batch_num |-> 0, batch_count |-> 0]

assign_users_to_group ==
    \/ /\ UNCHANGED nonBotVars
       /\ bot_pc = "assign_users_to_group"
       /\ IF cancel_event
          THEN Raise(OperationCancelledException, "none")
          ELSE Goto("aug_open")
       /\ ret' = None
       /\ ret_matched' = {}
       /\ UNCHANGED <<inputVars, callee, run, ssu, au, aug, prd, result, emitted>>

    \* select the group, wait for the user dropdown, count the valid users
    \/ /\ UNCHANGED nonBotVars
       /\ bot_pc = "aug_open"
       /\ IF cancel_event
          THEN Raise(OperationCancelledException, "assign_users_to_group")
               /\ UNCHANGED <<ret, aug>>
          ELSE \E total_users \in 0..MaxOptions, raised \in BOOLEAN :
                  IF raised
                  THEN Raise(Exception, "assign_users_to_group") /\ UNCHANGED <<ret, aug>>
                  ELSE IF total_users <= 0
                       THEN Return /\ ret' = 0 /\ UNCHANGED aug
                       ELSE /\ aug' = [AugIdle EXCEPT !.total_users = total_users]
                            /\ Goto("aug_loop")
                            /\ UNCHANGED ret
       /\ UNCHANGED <<inputVars, callee, ret_matched, run, ssu, au, prd, result, emitted>>

    \* while True: check_cancelled(); batch_num += 1; select up to BATCH_SIZE
    \* of the users listed; click Add
    \/ /\ UNCHANGED nonBotVars
       /\ bot_pc = "aug_loop"
       /\ IF cancel_event
          THEN Raise(OperationCancelledException, "assign_users_to_group") /\ UNCHANGED aug
          ELSE \E valid_indices \in 0..MaxOptions, raised \in BOOLEAN :
                  IF raised
                  THEN Raise(Exception, "assign_users_to_group") /\ UNCHANGED aug
                  ELSE IF valid_indices = 0
                       THEN /\ aug' = [aug EXCEPT !.batch_num = @ + 1]
                            /\ Goto("aug_return")
                       ELSE /\ aug.batch_num < MaxBatches
                            /\ aug' = [aug EXCEPT !.batch_num = @ + 1,
                                                  !.batch_count = Min(valid_indices, BATCH_SIZE)]
                            /\ Goto("aug_batch")
       /\ UNCHANGED <<inputVars, callee, ret, ret_matched, run, ssu, au, prd, result, emitted>>

    \* interruptible_sleep(2); assigned += batch_count; report_progress(assigned, total_users)
    \/ /\ UNCHANGED nonBotVars
       /\ bot_pc = "aug_batch"
       /\ IF cancel_event
          THEN Raise(OperationCancelledException, "assign_users_to_group")
               /\ UNCHANGED <<dataVars, emitted>>
          ELSE ReportProgress("assign_users_to_group",
                   aug.assigned + aug.batch_count, aug.total_users, None, None,
                   /\ aug' = [aug EXCEPT !.assigned = @ + aug.batch_count]
                   /\ Goto("aug_reselect")
                   /\ UNCHANGED <<callee, ret, ret_matched, run, ssu, au, prd, result>>)
       /\ UNCHANGED inputVars

    \* interruptible_sleep(1); re-select the group; _wait_for_user_dropdown_loaded
    \/ /\ UNCHANGED nonBotVars
       /\ bot_pc = "aug_reselect"
       /\ IF cancel_event
          THEN Raise(OperationCancelledException, "assign_users_to_group")
          ELSE Goto("aug_loop")
       /\ UNCHANGED <<inputVars, dataVars, emitted>>

    \* return assigned
    \/ /\ UNCHANGED nonBotVars
       /\ bot_pc = "aug_return"
       /\ Return
       /\ ret' = aug.assigned
       /\ aug' = AugIdle
       /\ UNCHANGED <<inputVars, callee, ret_matched, run, ssu, au, prd, result, emitted>>

    \* except Exception: return 0
    \/ /\ UNCHANGED nonBotVars
       /\ bot_pc = "aug_except"
       /\ Return
       /\ ret' = 0
       /\ aug' = AugIdle
       /\ UNCHANGED <<inputVars, callee, ret_matched, run, ssu, au, prd, result, emitted>>

(***************************************************************************)
(* _process_revoke_for_domain(domain, comment, phase, total_phases).  The  *)
(* function has no try statement of its own around its calls and its loop  *)
(* head; the search and the submission are inside try/except Exception.    *)
(***************************************************************************)
PrdIdle == [domain |-> NoneStr, approved_count |-> 0, request_number |-> 1]

process_revoke_for_domain ==
    \/ /\ UNCHANGED nonBotVars
       /\ bot_pc = "_process_revoke_for_domain"
       /\ CallHelper("select_domain", "none", "prd_domain_selected")
       /\ UNCHANGED <<inputVars, ret, ret_matched, run, ssu, au, aug, prd, result, emitted>>

    \* if not self.select_domain(domain): return 0
    \/ /\ UNCHANGED nonBotVars
       /\ bot_pc = "prd_domain_selected"
       /\ IF Truthy(ret)
          THEN CallHelper("navigate_to_approval_request_list", "none", "prd_navigated")
               /\ UNCHANGED ret
          ELSE Return /\ ret' = 0 /\ UNCHANGED callee
       /\ UNCHANGED <<inputVars, ret_matched, run, ssu, au, aug, prd, result, emitted>>

    \* if not self.navigate_to_approval_request_list(): return 0; the filtered
    \* search inside try/except Exception: return 0
    \/ /\ UNCHANGED nonBotVars
       /\ bot_pc = "prd_navigated"
       /\ \E searched \in BOOLEAN :
             IF Truthy(ret) /\ ~cancel_event /\ searched
             THEN /\ prd' = [prd EXCEPT !.approved_count = 0, !.request_number = 1]
                  /\ Goto("prd_loop")
                  /\ UNCHANGED ret
             ELSE Return /\ ret' = 0 /\ UNCHANGED prd
       /\ UNCHANGED <<inputVars, callee, ret_matched, run, ssu, au, aug, result, emitted>>

    \* while True: check_cancelled(); report_progress(request_number, -1, phase...)
    \/ /\ UNCHANGED nonBotVars
       /\ bot_pc = "prd_loop"
       /\ IF cancel_event
          THEN Raise(OperationCancelledException, "none") /\ UNCHANGED <<dataVars, emitted>>
          ELSE ReportProgress("none", prd.request_number, -1,
                   run.current_phase, run.total_phases,
                   Goto("prd_respond") /\ UNCHANGED dataVars)
       /\ UNCHANGED inputVars

    \* interruptible_sleep(2); the Respond links; click the first;
    \* interruptible_sleep(5)
    \/ /\ UNCHANGED nonBotVars
       /\ bot_pc = "prd_respond"
       /\ IF cancel_event
          THEN Raise(OperationCancelledException, "none")
          ELSE \E outcome \in {"respond", "none_left", "raised"} :
                  CASE outcome = "respond" ->
                          /\ prd.request_number <= MaxRequests
                          /\ Goto("prd_approve")
                    [] outcome = "none_left" -> Goto("prd_return")
                    [] outcome = "raised" -> Raise(Exception, "none")
       /\ UNCHANGED <<inputVars, dataVars, emitted>>

    \* try: cancellable_wait(15, txtComment); comment; click btnApprove;
    \* approved_count += 1 / except Exception: break
    \/ /\ UNCHANGED nonBotVars
       /\ bot_pc = "prd_approve"
       /\ \E clicked \in BOOLEAN :
             IF ~cancel_event /\ clicked
             THEN /\ prd' = [prd EXCEPT !.approved_count = @ + 1]
                  /\ Goto("prd_approved")
             ELSE Goto("prd_return") /\ UNCHANGED prd
       /\ UNCHANGED <<inputVars, callee, ret, ret_matched, run, ssu, au, aug, result, emitted>>

    \* interruptible_sleep(3), still inside the try; navigate back to the list
    \/ /\ UNCHANGED nonBotVars
       /\ bot_pc = "prd_approved"
       /\ IF cancel_event
          THEN Goto("prd_return") /\ UNCHANGED callee
          ELSE CallHelper("navigate_to_approval_request_list", "none", "prd_back")
       /\ UNCHANGED <<inputVars, ret, ret_matched, run, ssu, au, aug, prd, result, emitted>>

    \* if not navigate...: break; re-search inside try / bare except: pass;
    \* request_number += 1
    \/ /\ UNCHANGED nonBotVars
       /\ bot_pc = "prd_back"
       /\ IF Truthy(ret)
          THEN prd' = [prd EXCEPT !.request_number = @ + 1] /\ Goto("prd_loop")
          ELSE Goto("prd_return") /\ UNCHANGED prd
       /\ UNCHANGED <<inputVars, callee, ret, ret_matched, run, ssu, au, aug, result, emitted>>

    \* return approved_count
    \/ /\ UNCHANGED nonBotVars
       /\ bot_pc = "prd_return"
       /\ Return
       /\ ret' = prd.approved_count
       /\ prd' = PrdIdle
       /\ UNCHANGED <<inputVars, callee, ret_matched, run, ssu, au, aug, result, emitted>>

(***************************************************************************)
(* Locals of the workflow functions.                                       *)
(***************************************************************************)
RunLocals(domain, process_counterpart, specific_users) ==
    [domain |-> domain, process_counterpart |-> process_counterpart,
     specific_users |-> specific_users,
     total_phases |-> 0, current_phase |-> 0, counterpart |-> NoneStr,
     total_approved |-> 0, usernames_to_approve |-> {}, total_users |-> 0,
     batch_number |-> 1, selected |-> 0, matched |-> {},
     remaining |-> {}, counterpart_total |-> 0, counterpart_approved |-> 0,
     groups |-> 0, i |-> 0, total_domains |-> 0, d_idx |-> 0, g_idx |-> 0]

(***************************************************************************)
(* The except clauses of the workflow functions: every one returns False.  *)
(***************************************************************************)
run_cancelled ==
    /\ UNCHANGED nonBotVars
    /\ bot_pc = "run_cancelled"
    /\ WorkflowReturn("False")
    /\ UNCHANGED <<inputVars, callee, ret, ret_matched, run, ssu, au, aug, prd, emitted>>

run_error ==
    /\ UNCHANGED nonBotVars
    /\ bot_pc = "run_error"
    /\ WorkflowReturn("False")
    /\ UNCHANGED <<inputVars, callee, ret, ret_matched, run, ssu, au, aug, prd, emitted>>

(***************************************************************************)
(* run_revoke_certificate_approval.                                        *)
(***************************************************************************)
run_revoke_certificate_approval ==
    \/ /\ UNCHANGED nonBotVars
       /\ bot_pc = "start"
       /\ workflow = "run_revoke_certificate_approval"
       /\ LET total_phases == IF run.process_counterpart THEN 2 ELSE 1
          IN  ReportProgress("workflow", 0, 0, 1, total_phases,
                   /\ run' = [run EXCEPT !.total_phases = total_phases, !.current_phase = 1]
                   /\ Call("ensure_valid_session", "workflow", "rrc_connected")
                   /\ UNCHANGED <<callee, ret, ret_matched, ssu, au, aug, prd, result>>)
       /\ UNCHANGED inputVars

    \/ /\ UNCHANGED nonBotVars
       /\ bot_pc = "rrc_connected"
       /\ IF ~Truthy(ret)
          THEN WorkflowReturn("False") /\ UNCHANGED <<prd, emitted>>
               /\ UNCHANGED <<callee, ret, ret_matched, run, ssu, au, aug>>
          ELSE ReportProgress("workflow", 0, -1, run.current_phase, run.total_phases,
                   /\ prd' = [PrdIdle EXCEPT !.domain = run.domain]
                   /\ Call("_process_revoke_for_domain", "workflow", "rrc_primary")
                   /\ UNCHANGED <<callee, ret, ret_matched, run, ssu, au, aug, result>>)
       /\ UNCHANGED inputVars

    \/ /\ UNCHANGED nonBotVars
       /\ bot_pc = "rrc_primary"
       /\ LET cp == get_counterpart_domain(run.domain)
          IN  IF run.process_counterpart /\ cp # NoneStr
              THEN ReportProgress("workflow", 0, -1, 2, run.total_phases,
                       /\ run' = [run EXCEPT !.current_phase = 2, !.counterpart = cp]
                       /\ prd' = [PrdIdle EXCEPT !.domain = cp]
                       /\ Call("_process_revoke_for_domain", "workflow", "rrc_completed")
                       /\ UNCHANGED <<callee, ret, ret_matched, ssu, au, aug, result>>)
              ELSE Goto("rrc_completed") /\ UNCHANGED <<dataVars, emitted>>
       /\ UNCHANGED inputVars

    \/ /\ UNCHANGED nonBotVars
       /\ bot_pc = "rrc_completed"
       /\ ReportProgress("workflow", 1, 1, run.total_phases, run.total_phases,
               /\ WorkflowReturn("True")
               /\ UNCHANGED <<callee, ret, ret_matched, run, ssu, au, aug, prd>>)
       /\ UNCHANGED inputVars

(***************************************************************************)
(* run_assign_user_group.                                                  *)
(***************************************************************************)
run_assign_user_group ==
    \/ /\ UNCHANGED nonBotVars
       /\ bot_pc = "start"
       /\ workflow = "run_assign_user_group"
       /\ ReportProgress("workflow", 0, 0, 1, 1,
               /\ Call("ensure_valid_session", "workflow", "raug_connected")
               /\ UNCHANGED dataVars)
       /\ UNCHANGED inputVars

    \/ /\ UNCHANGED nonBotVars
       /\ bot_pc = "raug_connected"
       /\ IF ~Truthy(ret)
          THEN WorkflowReturn("False") /\ UNCHANGED callee
          ELSE CallHelper("select_domain", "workflow", "raug_domain_selected")
               /\ UNCHANGED result
       /\ UNCHANGED <<inputVars, ret, ret_matched, run, ssu, au, aug, prd, emitted>>

    \/ /\ UNCHANGED nonBotVars
       /\ bot_pc = "raug_domain_selected"
       /\ IF ~Truthy(ret)
          THEN WorkflowReturn("False") /\ UNCHANGED callee
          ELSE CallHelper("navigate_to_assign_user_group", "workflow", "raug_navigated")
               /\ UNCHANGED result
       /\ UNCHANGED <<inputVars, ret, ret_matched, run, ssu, au, aug, prd, emitted>>

    \/ /\ UNCHANGED nonBotVars
       /\ bot_pc = "raug_navigated"
       /\ IF ~Truthy(ret)
          THEN WorkflowReturn("False")
          ELSE Call("get_all_groups", "workflow", "raug_groups") /\ UNCHANGED result
       /\ UNCHANGED <<inputVars, callee, ret, ret_matched, run, ssu, au, aug, prd, emitted>>

    \/ /\ UNCHANGED nonBotVars
       /\ bot_pc = "raug_groups"
       /\ IF ret = 0
          THEN WorkflowReturn("False") /\ UNCHANGED run
          ELSE /\ run' = [run EXCEPT !.groups = ret, !.i = 0]
               /\ Goto("raug_loop")
               /\ UNCHANGED result
       /\ UNCHANGED <<inputVars, callee, ret, ret_matched, ssu, au, aug, prd, emitted>>

    \* for i, group in enumerate(groups): check_cancelled(); report_progress(i,
    \* len(groups)); assign_users_to_group / after the loop: Completed
    \/ /\ UNCHANGED nonBotVars
       /\ bot_pc = "raug_loop"
       /\ IF run.i < run.groups
          THEN IF cancel_event
               THEN Raise(OperationCancelledException, "workflow")
                    /\ UNCHANGED <<dataVars, emitted>>
               ELSE ReportProgress("workflow", run.i, run.groups, 1, 1,
                       /\ Call("assign_users_to_group", "workflow", "raug_assigned")
                       /\ UNCHANGED dataVars)
          ELSE ReportProgress("workflow", run.groups, run.groups, 1, 1,
                   /\ WorkflowReturn("True")
                   /\ UNCHANGED <<callee, ret, ret_matched, run, ssu, au, aug, prd>>)
       /\ UNCHANGED inputVars

    \/ /\ UNCHANGED nonBotVars
       /\ bot_pc = "raug_assigned"
       /\ run' = [run EXCEPT !.i = @ + 1]
       /\ Goto("raug_loop")
       /\ UNCHANGED <<inputVars, callee, ret, ret_matched, ssu, au, aug, prd, result, emitted>>

(***************************************************************************)
(* run_assign_user_groups_all_domains.                                     *)
(***************************************************************************)
run_assign_user_groups_all_domains ==
    \/ /\ UNCHANGED nonBotVars
       /\ bot_pc = "start"
       /\ workflow = "run_assign_user_groups_all_domains"
       /\ ReportProgress("workflow", 0, 0, 1, 1,
               /\ Call("ensure_valid_session", "workflow", "raad_connected")
               /\ UNCHANGED dataVars)
       /\ UNCHANGED inputVars

    \/ /\ UNCHANGED nonBotVars
       /\ bot_pc = "raad_connected"
       /\ IF ~Truthy(ret)
          THEN WorkflowReturn("False")
          ELSE Call("get_all_domains", "workflow", "raad_domains") /\ UNCHANGED result
       /\ UNCHANGED <<inputVars, callee, ret, ret_matched, run, ssu, au, aug, prd, emitted>>

    \/ /\ UNCHANGED nonBotVars
       /\ bot_pc = "raad_domains"
       /\ IF ret = 0
          THEN WorkflowReturn("False") /\ UNCHANGED run
          ELSE /\ run' = [run EXCEPT !.total_domains = ret, !.d_idx = 0]
               /\ Goto("raad_loop")
               /\ UNCHANGED result
       /\ UNCHANGED <<inputVars, callee, ret, ret_matched, ssu, au, aug, prd, emitted>>

    \* for d_idx, domain in enumerate(domains): check_cancelled();
    \* report_progress(d_idx, total_domains, phase=d_idx+1,
    \* total_phases=total_domains); try: select_domain / after the loop: Completed
    \/ /\ UNCHANGED nonBotVars
       /\ bot_pc = "raad_loop"
       /\ IF run.d_idx < run.total_domains
          THEN IF cancel_event
               THEN Raise(OperationCancelledException, "workflow")
                    /\ UNCHANGED <<dataVars, emitted>>
               ELSE ReportProgress("workflow", run.d_idx, run.total_domains,
                       run.d_idx + 1, run.total_domains,
                       /\ CallHelper("select_domain", "domain_loop", "raad_domain_selected")
                       /\ UNCHANGED <<ret, ret_matched, run, ssu, au, aug, prd, result>>)
          ELSE ReportProgress("workflow", run.total_domains, run.total_domains,
                   run.total_domains, run.total_domains,
                   /\ WorkflowReturn("True")
                   /\ UNCHANGED <<callee, ret, ret_matched, run, ssu, au, aug, prd>>)
       /\ UNCHANGED inputVars

    \/ /\ UNCHANGED nonBotVars
       /\ bot_pc = "raad_domain_selected"
       /\ IF ~Truthy(ret)
          THEN /\ run' = [run EXCEPT !.d_idx = @ + 1]
               /\ Goto("raad_loop")
               /\ UNCHANGED callee
          ELSE CallHelper("navigate_to_assign_user_group", "domain_loop", "raad_navigated")
               /\ UNCHANGED run
       /\ UNCHANGED <<inputVars, ret, ret_matched, ssu, au, aug, prd, result, emitted>>

    \/ /\ UNCHANGED nonBotVars
       /\ bot_pc = "raad_navigated"
       /\ IF ~Truthy(ret)
          THEN run' = [run EXCEPT !.d_idx = @ + 1] /\ Goto("raad_loop")
          ELSE Call("get_all_groups", "domain_loop", "raad_groups") /\ UNCHANGED run
       /\ UNCHANGED <<inputVars, callee, ret, ret_matched, ssu, au, aug, prd, result, emitted>>

    \/ /\ UNCHANGED nonBotVars
       /\ bot_pc = "raad_groups"
       /\ IF ret = 0
          THEN run' = [run EXCEPT !.d_idx = @ + 1] /\ Goto("raad_loop")
          ELSE run' = [run EXCEPT !.groups = ret, !.g_idx = 0] /\ Goto("raad_group_loop")
       /\ UNCHANGED <<inputVars, callee, ret, ret_matched, ssu, au, aug, prd, result, emitted>>

    \* for g_idx, group in enumerate(groups): check_cancelled();
    \* assign_users_to_group / total_domains_processed += 1
    \/ /\ UNCHANGED nonBotVars
       /\ bot_pc = "raad_group_loop"
       /\ IF run.g_idx < run.groups
          THEN IF cancel_event
               THEN Raise(OperationCancelledException, "domain_loop") /\ UNCHANGED run
               ELSE Call("assign_users_to_group", "domain_loop", "raad_assigned")
                    /\ UNCHANGED run
          ELSE run' = [run EXCEPT !.d_idx = @ + 1] /\ Goto("raad_loop")
       /\ UNCHANGED <<inputVars, callee, ret, ret_matched, ssu, au, aug, prd, result, emitted>>

    \/ /\ UNCHANGED nonBotVars
       /\ bot_pc = "raad_assigned"
       /\ run' = [run EXCEPT !.g_idx = @ + 1]
       /\ Goto("raad_group_loop")
       /\ UNCHANGED <<inputVars, callee, ret, ret_matched, ssu, au, aug, prd, result, emitted>>

    \* except Exception as e: skipped_domains.append(...); continue
    \/ /\ UNCHANGED nonBotVars
       /\ bot_pc = "raad_except"
       /\ run' = [run EXCEPT !.d_idx = @ + 1]
       /\ Goto("raad_loop")
       /\ UNCHANGED <<inputVars, callee, ret, ret_matched, ssu, au, aug, prd, result, emitted>>

(***************************************************************************)
(* run_approval_process / run_rejection_process (the two differ in the     *)
(* submit function called and in log texts).                               *)
(***************************************************************************)
run_approval_process ==
    \/ /\ UNCHANGED nonBotVars
       /\ bot_pc = "start"
       /\ workflow \in ApprovalWorkflows
       /\ LET total_phases == IF run.process_counterpart THEN 2 ELSE 1
          IN  ReportProgress("workflow", 0, 0, 1, total_phases,
                   /\ run' = [run EXCEPT !.total_phases = total_phases, !.current_phase = 1]
                   /\ Call("ensure_valid_session", "workflow", "rap_connected")
                   /\ UNCHANGED <<callee, ret, ret_matched, ssu, au, aug, prd, result>>)
       /\ UNCHANGED inputVars

    \* if not self.ensure_valid_session(): return False; check_cancelled();
    \* select_domain(domain)
    \/ /\ UNCHANGED nonBotVars
       /\ bot_pc = "rap_connected"
       /\ IF ~Truthy(ret)
          THEN WorkflowReturn("False") /\ UNCHANGED callee
          ELSE IF cancel_event
               THEN Raise(OperationCancelledException, "workflow")
                    /\ UNCHANGED <<callee, result>>
               ELSE CallHelper("select_domain", "workflow", "rap_domain_selected")
                    /\ UNCHANGED result
       /\ UNCHANGED <<inputVars, ret, ret_matched, run, ssu, au, aug, prd, emitted>>

    \/ /\ UNCHANGED nonBotVars
       /\ bot_pc = "rap_domain_selected"
       /\ IF ~Truthy(ret)
          THEN WorkflowReturn("False") /\ UNCHANGED callee
          ELSE CallHelper("navigate_to_user_list", "workflow", "rap_navigated")
               /\ UNCHANGED result
       /\ UNCHANGED <<inputVars, ret, ret_matched, run, ssu, au, aug, prd, emitted>>

    \/ /\ UNCHANGED nonBotVars
       /\ bot_pc = "rap_navigated"
       /\ IF ~Truthy(ret)
          THEN WorkflowReturn("False") /\ UNCHANGED <<callee, emitted>>
               /\ UNCHANGED <<ret, ret_matched, run, ssu, au, aug, prd>>
          ELSE ReportProgress("workflow", 0, -1, run.current_phase, run.total_phases,
                   /\ CallHelper("search_pending_users", "workflow", "rap_searched")
                   /\ UNCHANGED <<ret, ret_matched, run, ssu, au, aug, prd, result>>)
       /\ UNCHANGED inputVars

    \* if not self.search_pending_users(): the counterpart is tried at once
    \/ /\ UNCHANGED nonBotVars
       /\ bot_pc = "rap_searched"
       /\ LET cp == get_counterpart_domain(run.domain)
          IN  IF Truthy(ret)
              THEN Goto("rap_select") /\ UNCHANGED <<dataVars, emitted>>
              ELSE IF run.process_counterpart /\ cp # NoneStr
                   THEN ReportProgress("workflow", 0, -1, 2, run.total_phases,
                           /\ run' = [run EXCEPT !.current_phase = 2, !.counterpart = cp]
                           /\ CallHelper("select_domain", "workflow", "rap_switch_selected")
                           /\ UNCHANGED <<ret, ret_matched, ssu, au, aug, prd, result>>)
                   ELSE /\ WorkflowReturn("False")
                        /\ UNCHANGED <<callee, ret, ret_matched, run, ssu, au, aug, prd, emitted>>
       /\ UNCHANGED inputVars

    \* if not self.select_domain(counterpart): return False; interruptible_sleep(3)
    \/ /\ UNCHANGED nonBotVars
       /\ bot_pc = "rap_switch_selected"
       /\ IF ~Truthy(ret)
          THEN WorkflowReturn("False") /\ UNCHANGED callee
          ELSE IF cancel_event
               THEN Raise(OperationCancelledException, "workflow")
                    /\ UNCHANGED <<callee, result>>
               ELSE CallHelper("navigate_to_user_list", "workflow", "rap_switch_navigated")
                    /\ UNCHANGED result
       /\ UNCHANGED <<inputVars, ret, ret_matched, run, ssu, au, aug, prd, emitted>>

    \/ /\ UNCHANGED nonBotVars
       /\ bot_pc = "rap_switch_navigated"
       /\ IF ~Truthy(ret)
          THEN WorkflowReturn("False") /\ UNCHANGED callee
          ELSE CallHelper("search_pending_users", "workflow", "rap_switch_searched")
               /\ UNCHANGED result
       /\ UNCHANGED <<inputVars, ret, ret_matched, run, ssu, au, aug, prd, emitted>>

    \* no pending users in the counterpart either: Completed, return True;
    \* otherwise domain = counterpart; process_counterpart = False
    \/ /\ UNCHANGED nonBotVars
       /\ bot_pc = "rap_switch_searched"
       /\ IF ~Truthy(ret)
          THEN ReportProgress("workflow", 1, 1, run.total_phases, run.total_phases,
                   /\ WorkflowReturn("True")
                   /\ UNCHANGED <<callee, ret, ret_matched, run, ssu, au, aug, prd>>)
          ELSE /\ run' = [run EXCEPT !.domain = run.counterpart,
                                     !.process_counterpart = FALSE]
               /\ Goto("rap_select")
               /\ UNCHANGED <<callee, ret, ret_matched, ssu, au, aug, prd, result, emitted>>
       /\ UNCHANGED inputVars

    \* total_approved = 0; specific users: the targets and the first determinate
    \* snapshot; all pending users: select_all_pending_users()
    \/ /\ UNCHANGED nonBotVars
       /\ bot_pc = "rap_select"
       /\ IF run.specific_users # {}
          THEN LET usernames_to_approve == Targets(run.domain, run.specific_users)
                   total_users == Cardinality(usernames_to_approve)
               IN  ReportProgress("workflow", 0, total_users,
                       run.current_phase, run.total_phases,
                       /\ run' = [run EXCEPT !.total_approved = 0,
                                             !.usernames_to_approve = usernames_to_approve,
                                             !.total_users = total_users,
                                             !.batch_number = 1]
                       /\ Goto("rap_batch")
                       /\ UNCHANGED <<callee, ret, ret_matched, ssu, au, aug, prd, result>>)
          ELSE /\ run' = [run EXCEPT !.total_approved = 0]
               /\ CallHelper("select_all_pending_users", "workflow", "rap_all_selected")
               /\ UNCHANGED <<ret, ret_matched, ssu, au, aug, prd, result, emitted>>
       /\ UNCHANGED inputVars

    \* while batch_number <= max_batches and usernames_to_approve:
    \* check_cancelled(); select_specific_users(list(usernames_to_approve))
    \/ /\ UNCHANGED nonBotVars
       /\ bot_pc = "rap_batch"
       /\ IF run.batch_number <= max_batches /\ run.usernames_to_approve # {}
          THEN IF cancel_event
               THEN Raise(OperationCancelledException, "workflow") /\ UNCHANGED ssu
               ELSE /\ ssu' = SsuCall(run.usernames_to_approve)
                    /\ Call("select_specific_users", "workflow", "rap_batch_selected")
          ELSE Goto("rap_after") /\ UNCHANGED ssu
       /\ UNCHANGED <<inputVars, callee, ret, ret_matched, run, au, aug, prd, result, emitted>>

    \* if selected > 0: approve_users(comment) / else: break
    \/ /\ UNCHANGED nonBotVars
       /\ bot_pc = "rap_batch_selected"
       /\ run' = [run EXCEPT !.selected = ret, !.matched = ret_matched]
       /\ IF ret > 0
          THEN Call("approve_users", "workflow", "rap_batch_approved")
          ELSE Goto("rap_after")
       /\ UNCHANGED <<inputVars, callee, ret, ret_matched, ssu, au, aug, prd, result, emitted>>

    \* if approved_count and approved_count > 0: total_approved += approved_count;
    \* usernames_to_approve -= matched; report_progress(total_approved, total_users)
    \/ /\ UNCHANGED nonBotVars
       /\ bot_pc = "rap_batch_approved"
       /\ IF ret > 0
          THEN LET total_approved == run.total_approved + ret
                   usernames_to_approve == Remaining(run.usernames_to_approve, run.matched)
               IN  ReportProgress("workflow", total_approved, run.total_users,
                       run.current_phase, run.total_phases,
                       /\ run' = [run EXCEPT !.total_approved = total_approved,
                                             !.usernames_to_approve = usernames_to_approve]
                       /\ IF usernames_to_approve # {}
                          THEN Goto("rap_batch_again")
                          ELSE Goto("rap_after")
                       /\ UNCHANGED <<callee, ret, ret_matched, ssu, au, aug, prd, result>>)
          ELSE Goto("rap_after") /\ UNCHANGED <<dataVars, emitted>>
       /\ UNCHANGED inputVars

    \* interruptible_sleep(2); navigate_to_user_list()
    \/ /\ UNCHANGED nonBotVars
       /\ bot_pc = "rap_batch_again"
       /\ IF cancel_event
          THEN Raise(OperationCancelledException, "workflow") /\ UNCHANGED callee
          ELSE CallHelper("navigate_to_user_list", "workflow", "rap_batch_navigated")
       /\ UNCHANGED <<inputVars, ret, ret_matched, run, ssu, au, aug, prd, result, emitted>>

    \/ /\ UNCHANGED nonBotVars
       /\ bot_pc = "rap_batch_navigated"
       /\ IF ~Truthy(ret)
          THEN Goto("rap_after") /\ UNCHANGED callee
          ELSE CallHelper("search_pending_users", "workflow", "rap_batch_searched")
       /\ UNCHANGED <<inputVars, ret, ret_matched, run, ssu, au, aug, prd, result, emitted>>

    \/ /\ UNCHANGED nonBotVars
       /\ bot_pc = "rap_batch_searched"
       /\ IF ~Truthy(ret)
          THEN Goto("rap_after") /\ UNCHANGED run
          ELSE run' = [run EXCEPT !.batch_number = @ + 1] /\ Goto("rap_batch")
       /\ UNCHANGED <<inputVars, callee, ret, ret_matched, ssu, au, aug, prd, result, emitted>>

    \* selected = self.select_all_pending_users(); if selected > 0:
    \* report_progress(0, selected); approve_users(comment)
    \/ /\ UNCHANGED nonBotVars
       /\ bot_pc = "rap_all_selected"
       /\ IF ret > 0
          THEN ReportProgress("workflow", 0, ret, run.current_phase, run.total_phases,
                   /\ run' = [run EXCEPT !.selected = ret]
                   /\ Call("approve_users", "workflow", "rap_all_approved")
                   /\ UNCHANGED <<callee, ret, ret_matched, ssu, au, aug, prd, result>>)
          ELSE /\ run' = [run EXCEPT !.selected = ret]
               /\ Goto("rap_after")
               /\ UNCHANGED <<callee, ret, ret_matched, ssu, au, aug, prd, result, emitted>>
       /\ UNCHANGED inputVars

    \* if approved_count and approved_count > 0: total_approved = approved_count;
    \* report_progress(approved_count, selected)
    \/ /\ UNCHANGED nonBotVars
       /\ bot_pc = "rap_all_approved"
       /\ IF ret > 0
          THEN ReportProgress("workflow", ret, run.selected,
                   run.current_phase, run.total_phases,
                   /\ run' = [run EXCEPT !.total_approved = ret]
                   /\ Goto("rap_after")
                   /\ UNCHANGED <<callee, ret, ret_matched, ssu, au, aug, prd, result>>)
          ELSE Goto("rap_after") /\ UNCHANGED <<dataVars, emitted>>
       /\ UNCHANGED inputVars

    \* if total_approved > 0: ... else: ...; in both branches, if
    \* process_counterpart and the domain has a counterpart: phase 2
    \/ /\ UNCHANGED nonBotVars
       /\ bot_pc = "rap_after"
       /\ LET cp == get_counterpart_domain(run.domain)
          IN  IF run.process_counterpart /\ cp # NoneStr
              THEN ReportProgress("workflow", 0, -1, 2, run.total_phases,
                       /\ run' = [run EXCEPT !.current_phase = 2, !.counterpart = cp]
                       /\ CallHelper("select_domain", "workflow",
                               IF run.total_approved > 0 THEN "rap_cp_selected"
                               ELSE "rap_try_selected")
                       /\ UNCHANGED <<ret, ret_matched, ssu, au, aug, prd, result>>)
              ELSE /\ IF run.total_approved > 0
                      THEN Goto("rap_completed")
                      ELSE Goto("rap_no_users")
                   /\ UNCHANGED <<dataVars, emitted>>
       /\ UNCHANGED inputVars

    \* counterpart after a successful primary phase:
    \* if self.select_domain(counterpart): interruptible_sleep(3)
    \/ /\ UNCHANGED nonBotVars
       /\ bot_pc = "rap_cp_selected"
       /\ IF Truthy(ret)
          THEN IF cancel_event
               THEN Raise(OperationCancelledException, "workflow") /\ UNCHANGED callee
               ELSE CallHelper("navigate_to_user_list", "workflow", "rap_cp_navigated")
          ELSE Goto("rap_completed") /\ UNCHANGED callee
       /\ UNCHANGED <<inputVars, ret, ret_matched, run, ssu, au, aug, prd, result, emitted>>

    \* if self.navigate_to_user_list() and self.search_pending_users()
    \/ /\ UNCHANGED nonBotVars
       /\ bot_pc = "rap_cp_navigated"
       /\ IF Truthy(ret)
          THEN CallHelper("search_pending_users", "workflow", "rap_cp_searched")
          ELSE Goto("rap_completed") /\ UNCHANGED callee
       /\ UNCHANGED <<inputVars, ret, ret_matched, run, ssu, au, aug, prd, result, emitted>>

    \/ /\ UNCHANGED nonBotVars
       /\ bot_pc = "rap_cp_searched"
       /\ IF ~Truthy(ret)
          THEN Goto("rap_completed") /\ UNCHANGED <<dataVars, emitted>>
          ELSE IF run.specific_users # {}
               THEN LET remaining == Targets(run.counterpart, run.specific_users)
                        counterpart_total == Cardinality(remaining)
                    IN  ReportProgress("workflow", 0, counterpart_total,
                           run.current_phase, run.total_phases,
                           /\ run' = [run EXCEPT !.remaining = remaining,
                                                 !.counterpart_total = counterpart_total,
                                                 !.counterpart_approved = 0,
                                                 !.batch_number = 1]
                           /\ Goto("rap_cp_batch")
                           /\ UNCHANGED <<callee, ret, ret_matched, ssu, au, aug, prd, result>>)
               ELSE /\ CallHelper("select_all_pending_users", "workflow", "rap_cp_all_selected")
                    /\ UNCHANGED <<ret, ret_matched, run, ssu, au, aug, prd, result, emitted>>
       /\ UNCHANGED inputVars

    \* while batch_number <= 20 and remaining: check_cancelled();
    \* select_specific_users(list(remaining))
    \/ /\ UNCHANGED nonBotVars
       /\ bot_pc = "rap_cp_batch"
       /\ IF run.batch_number <= max_batches /\ run.remaining # {}
          THEN IF cancel_event
               THEN Raise(OperationCancelledException, "workflow") /\ UNCHANGED ssu
               ELSE /\ ssu' = SsuCall(run.remaining)
                    /\ Call("select_specific_users", "workflow", "rap_cp_batch_selected")
          ELSE Goto("rap_completed") /\ UNCHANGED ssu
       /\ UNCHANGED <<inputVars, callee, ret, ret_matched, run, au, aug, prd, result, emitted>>

    \/ /\ UNCHANGED nonBotVars
       /\ bot_pc = "rap_cp_batch_selected"
       /\ run' = [run EXCEPT !.selected = ret, !.matched = ret_matched]
       /\ IF ret > 0
          THEN Call("approve_users", "workflow", "rap_cp_batch_approved")
          ELSE Goto("rap_completed")
       /\ UNCHANGED <<inputVars, callee, ret, ret_matched, ssu, au, aug, prd, result, emitted>>

    \* if approved: counterpart_approved += approved; remaining -= matched;
    \* report_progress(counterpart_approved, counterpart_total)
    \/ /\ UNCHANGED nonBotVars
       /\ bot_pc = "rap_cp_batch_approved"
       /\ LET counterpart_approved == run.counterpart_approved + ret
              remaining == run.remaining \ run.matched
          IN  ReportProgress("workflow", counterpart_approved, run.counterpart_total,
                   run.current_phase, run.total_phases,
                   /\ run' = [run EXCEPT !.counterpart_approved = counterpart_approved,
                                         !.remaining = remaining]
                   /\ IF remaining # {}
                      THEN Goto("rap_cp_batch_again")
                      ELSE Goto("rap_completed")
                   /\ UNCHANGED <<callee, ret, ret_matched, ssu, au, aug, prd, result>>)
       /\ UNCHANGED inputVars

    \* interruptible_sleep(2); navigate_to_user_list()
    \/ /\ UNCHANGED nonBotVars
       /\ bot_pc = "rap_cp_batch_again"
       /\ IF cancel_event
          THEN Raise(OperationCancelledException, "workflow") /\ UNCHANGED callee
          ELSE CallHelper("navigate_to_user_list", "workflow", "rap_cp_batch_navigated")
       /\ UNCHANGED <<inputVars, ret, ret_matched, run, ssu, au, aug, prd, result, emitted>>

    \/ /\ UNCHANGED nonBotVars
       /\ bot_pc = "rap_cp_batch_navigated"
       /\ IF ~Truthy(ret)
          THEN Goto("rap_completed") /\ UNCHANGED callee
          ELSE CallHelper("search_pending_users", "workflow", "rap_cp_batch_searched")
       /\ UNCHANGED <<inputVars, ret, ret_matched, run, ssu, au, aug, prd, result, emitted>>

    \/ /\ UNCHANGED nonBotVars
       /\ bot_pc = "rap_cp_batch_searched"
       /\ IF ~Truthy(ret)
          THEN Goto("rap_completed") /\ UNCHANGED run
          ELSE run' = [run EXCEPT !.batch_number = @ + 1] /\ Goto("rap_cp_batch")
       /\ UNCHANGED <<inputVars, callee, ret, ret_matched, ssu, au, aug, prd, result, emitted>>

    \* sel = self.select_all_pending_users(); if sel > 0: report_progress(0, sel);
    \* approve_users(comment)
    \/ /\ UNCHANGED nonBotVars
       /\ bot_pc = "rap_cp_all_selected"
       /\ IF ret > 0
          THEN ReportProgress("workflow", 0, ret, run.current_phase, run.total_phases,
                   /\ run' = [run EXCEPT !.selected = ret]
                   /\ Call("approve_users", "workflow", "rap_cp_all_approved")
                   /\ UNCHANGED <<callee, ret, ret_matched, ssu, au, aug, prd, result>>)
          ELSE /\ run' = [run EXCEPT !.selected = ret]
               /\ Goto("rap_completed")
               /\ UNCHANGED <<callee, ret, ret_matched, ssu, au, aug, prd, result, emitted>>
       /\ UNCHANGED inputVars

    \* if approved: report_progress(approved, sel)
    \/ /\ UNCHANGED nonBotVars
       /\ bot_pc = "rap_cp_all_approved"
       /\ IF ret > 0
          THEN ReportProgress("workflow", ret, run.selected,
                   run.current_phase, run.total_phases,
                   Goto("rap_completed") /\ UNCHANGED dataVars)
          ELSE Goto("rap_completed") /\ UNCHANGED <<dataVars, emitted>>
       /\ UNCHANGED inputVars

    \* report_progress(1, 1, "Completed", phase=total_phases); return True
    \/ /\ UNCHANGED nonBotVars
       /\ bot_pc = "rap_completed"
       /\ ReportProgress("workflow", 1, 1, run.total_phases, run.total_phases,
               /\ WorkflowReturn("True")
               /\ UNCHANGED <<callee, ret, ret_matched, run, ssu, au, aug, prd>>)
       /\ UNCHANGED inputVars

    \* counterpart after a primary phase without approvals:
    \* if self.select_domain(counterpart): interruptible_sleep(3)
    \/ /\ UNCHANGED nonBotVars
       /\ bot_pc = "rap_try_selected"
       /\ IF Truthy(ret)
          THEN IF cancel_event
               THEN Raise(OperationCancelledException, "workflow") /\ UNCHANGED callee
               ELSE CallHelper("navigate_to_user_list", "workflow", "rap_try_navigated")
          ELSE Goto("rap_no_users") /\ UNCHANGED callee
       /\ UNCHANGED <<inputVars, ret, ret_matched, run, ssu, au, aug, prd, result, emitted>>

    \/ /\ UNCHANGED nonBotVars
       /\ bot_pc = "rap_try_navigated"
       /\ IF Truthy(ret)
          THEN CallHelper("search_pending_users", "workflow", "rap_try_searched")
          ELSE Goto("rap_no_users") /\ UNCHANGED callee
       /\ UNCHANGED <<inputVars, ret, ret_matched, run, ssu, au, aug, prd, result, emitted>>

    \* sel, _ = self.select_specific_users(usernames) / sel = select_all_pending_users()
    \/ /\ UNCHANGED nonBotVars
       /\ bot_pc = "rap_try_searched"
       /\ IF ~Truthy(ret)
          THEN Goto("rap_no_users") /\ UNCHANGED <<callee, ssu>>
          ELSE IF run.specific_users # {}
               THEN /\ ssu' = SsuCall(Targets(run.counterpart, run.specific_users))
                    /\ Call("select_specific_users", "workflow", "rap_try_chosen")
                    /\ UNCHANGED callee
               ELSE /\ CallHelper("select_all_pending_users", "workflow", "rap_try_chosen")
                    /\ UNCHANGED ssu
       /\ UNCHANGED <<inputVars, ret, ret_matched, run, au, aug, prd, result, emitted>>

    \* if sel > 0: report_progress(0, sel); approve_users(comment)
    \/ /\ UNCHANGED nonBotVars
       /\ bot_pc = "rap_try_chosen"
       /\ IF ret > 0
          THEN ReportProgress("workflow", 0, ret, run.current_phase, run.total_phases,
                   /\ run' = [run EXCEPT !.selected = ret]
                   /\ Call("approve_users", "workflow", "rap_try_approved")
                   /\ UNCHANGED <<callee, ret, ret_matched, ssu, au, aug, prd, result>>)
          ELSE /\ run' = [run EXCEPT !.selected = ret]
               /\ Goto("rap_no_users")
               /\ UNCHANGED <<callee, ret, ret_matched, ssu, au, aug, prd, result, emitted>>
       /\ UNCHANGED inputVars

    \* if approved and approved > 0: Completed, return True
    \/ /\ UNCHANGED nonBotVars
       /\ bot_pc = "rap_try_approved"
       /\ IF ret > 0
          THEN ReportProgress("workflow", 1, 1, run.total_phases, run.total_phases,
                   /\ WorkflowReturn("True")
                   /\ UNCHANGED <<callee, ret, ret_matched, run, ssu, au, aug, prd>>)
          ELSE Goto("rap_no_users") /\ UNCHANGED <<dataVars, emitted>>
       /\ UNCHANGED inputVars

    \* report_progress(1, 1, "Completed - No users", phase=total_phases); return False
    \/ /\ UNCHANGED nonBotVars
       /\ bot_pc = "rap_no_users"
       /\ ReportProgress("workflow", 1, 1, run.total_phases, run.total_phases,
               /\ WorkflowReturn("False")
               /\ UNCHANGED <<callee, ret, ret_matched, run, ssu, au, aug, prd>>)
       /\ UNCHANGED inputVars

(***************************************************************************)
(* _stop_automation sets the token while the workflow runs.                *)
(***************************************************************************)
CancelRequested ==
    /\ UNCHANGED <<ctlOnly, primVars, domVars, botVars, extVars>>
    /\ bot_pc # "done"
    /\ ~cancel_event
    /\ cancel_event' = TRUE

BotIdle ==
    /\ workflow = "none"
    /\ progress_callback = "six_fields"
    /\ remote_surface = "any"
    /\ bot_pc = "idle"
    /\ call_stack = <<>>
    /\ callee = "none"
    /\ ret = False
    /\ ret_matched = {}
    /\ run = RunLocals(NoneStr, FALSE, {})
    /\ ssu = SsuIdle
    /\ au = AuIdle
    /\ aug = AugIdle
    /\ prd = PrdIdle
    /\ emitted = NothingEmitted
    /\ result = "running"

InitBot ==
    /\ workflow \in Workflows
    /\ progress_callback \in {"six_fields", "three_fields"}
    /\ remote_surface \in {"any", "all_on_page_1", "one_per_page", "primary_empty",
                          "one_per_batch"}
    /\ bot_pc = "start"
    /\ call_stack = <<>>
    /\ callee = "none"
    /\ ret = False
    /\ ret_matched = {}
    /\ \E domain \in RunDomains, process_counterpart \in BOOLEAN,
          specific_users \in UserLists \cup {ManyUsers} :
          /\ workflow \notin ApprovalWorkflows => specific_users = {}
          /\ specific_users = ManyUsers <=> remote_surface = "one_per_batch"
          /\ remote_surface = "one_per_batch"
                => /\ workflow \in ApprovalWorkflows
                   /\ ~process_counterpart
                   /\ domain = NCR00Sign
                   /\ progress_callback = "six_fields"
          /\ workflow \in {"run_assign_user_group", "run_assign_user_groups_all_domains"}
                => ~process_counterpart
          /\ workflow = "run_assign_user_groups_all_domains" => domain = NCR00Sign
          /\ remote_surface \in {"all_on_page_1", "one_per_page"}
                => workflow = "run_approval_process" /\ specific_users # {}
          /\ remote_surface = "primary_empty"
                => workflow \in ApprovalWorkflows /\ process_counterpart
                   /\ domain = NCR00Sign
          /\ remote_surface = "one_per_page" => specific_users = UserIds
          /\ run = RunLocals(domain, process_counterpart, specific_users)
    /\ ssu = SsuIdle
    /\ au = AuIdle
    /\ aug = AugIdle
    /\ prd = PrdIdle
    /\ emitted = NothingEmitted
    /\ result = "running"
    /\ sess \in {SessLocals(driver) : driver \in {"none", "live"}}

\* one step of the workflow function on the worker thread
WorkerStep ==
    \/ HelperEntry \/ HelperBody \/ go_to_next_page
    \/ ensure_valid_session \/ setup_browser \/ navigate_to_govca
    \/ get_all_groups \/ get_all_domains
    \/ select_specific_users \/ approve_users \/ assign_users_to_group
    \/ process_revoke_for_domain
    \/ run_cancelled \/ run_error
    \/ run_approval_process \/ run_revoke_certificate_approval
    \/ run_assign_user_group \/ run_assign_user_groups_all_domains

NextBot == CancelRequested \/ WorkerStep

(***************************************************************************)
(* One call of select_specific_users from inside the try statement of a    *)
(* workflow function, on a surface that offers a next page after every     *)
(* page.  call_stack is empty once the call has returned to "caller" or    *)
(* an exception has left it for the workflow's handler.                    *)
(***************************************************************************)
InitSelect ==
    /\ workflow = "run_approval_process"
    /\ progress_callback = "six_fields"
    /\ remote_surface = "endless"
    /\ bot_pc = "select_specific_users"
    /\ call_stack = <<[ret |-> "caller", region |-> "workflow"]>>
    /\ callee = "none"
    /\ ret = False
    /\ ret_matched = {}
    /\ \E domain \in RunDomains, specific_users \in UserLists \ {{}} :
          /\ run = RunLocals(domain, FALSE, specific_users)
          /\ ssu = SsuCall(Targets(domain, specific_users))
    /\ au = AuIdle
    /\ aug = AugIdle
    /\ prd = PrdIdle
    /\ emitted = NothingEmitted
    /\ result = "running"
    /\ sess = SessLocals("live")

SelectStep == HelperEntry \/ HelperBody \/ go_to_next_page \/ select_specific_users

NextSelect == CancelRequested \/ SelectStep

(***************************************************************************)
(* wait_for_table_loaded (bot.py).  table_is_ready returns None while the  *)
(* page is loading, 'has_data' or 'empty'; _get_table_fingerprint returns  *)
(* a comparable value, here a number.  A sample is one reading of both.    *)
(* wtl.stable counts the latest consecutive samples that are equal, the    *)
(* reading before the stability loop and the final reading included.       *)
(***************************************************************************)
stability_checks == 5

TableResults == {"None", "has_data", "empty"}
Fingerprints == 1..MaxFingerprints

WtlLocals(pc, previous_state) ==
    [pc |-> pc, previous_state |-> previous_state, i |-> 0,
     initial_result |-> "None", initial_fingerprint |-> 1,
     value |-> False, last_result |-> "None", last_fingerprint |-> 1,
     stable |-> 0]

TableIdle == wtl = WtlLocals("idle", FALSE)

InitTable == \E previous_state \in BOOLEAN : wtl = WtlLocals("start", previous_state)

\* the page is read: current result and fingerprint
Sampled(w, current_result, current_fingerprint) ==
    [w EXCEPT !.last_result = current_result,
              !.last_fingerprint = current_fingerprint,
              !.stable = IF /\ w.stable > 0
                            /\ current_result = w.last_result
                            /\ current_fingerprint = w.last_fingerprint
                         THEN w.stable + 1 ELSE 1]

\* one pass of 'for i in range(stability_checks)' after the sleep and the check
StabilityPass(w, loading_visible, current_result, current_fingerprint) ==
    LET next == [w EXCEPT !.i = w.i + 1]
        read == Sampled(next, current_result, current_fingerprint)
    IN  IF loading_visible THEN next
        ELSE IF current_result # w.initial_result /\ current_result = "has_data"
             THEN [read EXCEPT !.pc = "rendering"]
        ELSE IF current_result # w.initial_result /\ current_result = "empty"
             THEN read
        ELSE [read EXCEPT !.initial_result = current_result,
                          !.initial_fingerprint = current_fingerprint]

wait_for_table_loaded ==
    \* self.check_cancelled(); phase 1 only with a previous_state
    \/ /\ UNCHANGED nonTblVars
       /\ wtl.pc = "start"
       /\ UNCHANGED cancel_event
       /\ wtl' = [wtl EXCEPT !.pc = IF cancel_event THEN "cancelled"
                                    ELSE IF wtl.previous_state THEN "phase1"
                                    ELSE "phase2"]
    \* phase 1: until the state changes, the indicator shows or the time is over
    \/ /\ UNCHANGED nonTblVars
       /\ wtl.pc = "phase1"
       /\ UNCHANGED cancel_event
       /\ wtl' = [wtl EXCEPT !.pc = IF cancel_event THEN "cancelled" ELSE "phase2"]
    \* phase 2: cancellable_wait(timeout, table_is_ready is not None), then
    \* initial_result = table_is_ready(); initial_fingerprint = _get_table_fingerprint()
    \/ /\ UNCHANGED nonTblVars
       /\ wtl.pc = "phase2"
       /\ UNCHANGED cancel_event
       /\ \/ /\ cancel_event
             /\ wtl' = [wtl EXCEPT !.pc = "cancelled"]
          \/ wtl' = [wtl EXCEPT !.pc = "timed_out", !.value = False]
          \/ \E initial_result \in TableResults, initial_fingerprint \in Fingerprints :
                wtl' = [Sampled(wtl, initial_result, initial_fingerprint)
                           EXCEPT !.pc = "stability",
                                  !.initial_result = initial_result,
                                  !.initial_fingerprint = initial_fingerprint]
    \* phase 3: interruptible_sleep(check_interval); check_cancelled(); one pass
    \/ /\ UNCHANGED nonTblVars
       /\ wtl.pc = "stability"
       /\ wtl.i < stability_checks
       /\ UNCHANGED cancel_event
       /\ IF cancel_event
          THEN wtl' = [wtl EXCEPT !.pc = "cancelled"]
          ELSE \E loading_visible \in BOOLEAN, current_result \in TableResults,
                  current_fingerprint \in Fingerprints :
                  wtl' = StabilityPass(wtl, loading_visible, current_result,
                                       current_fingerprint)
    \* the loop is over: wait for the loading indicator to vanish
    \/ /\ UNCHANGED nonTblVars
       /\ wtl.pc = "stability"
       /\ wtl.i = stability_checks
       /\ UNCHANGED cancel_event
       /\ \E loading_visible \in BOOLEAN :
             wtl' = [wtl EXCEPT !.pc = IF loading_visible /\ cancel_event
                                       THEN "cancelled" ELSE "final"]
    \* final_result = table_is_ready(self.driver)
    \/ /\ UNCHANGED nonTblVars
       /\ wtl.pc = "final"
       /\ UNCHANGED cancel_event
       /\ \E final_result \in TableResults, fingerprint \in Fingerprints :
             LET read == Sampled(wtl, final_result, fingerprint)
             IN  wtl' = CASE final_result = "has_data" -> [read EXCEPT !.pc = "rendering"]
                          [] final_result = "empty" ->
                                [read EXCEPT !.pc = "returned", !.value = False]
                          [] OTHER -> [read EXCEPT !.pc = "extended"]
    \* interruptible_sleep(2); return True
    \/ /\ UNCHANGED nonTblVars
       /\ wtl.pc = "rendering"
       /\ UNCHANGED cancel_event
       /\ wtl' = IF cancel_event THEN [wtl EXCEPT !.pc = "cancelled"]
                 ELSE [wtl EXCEPT !.pc = "returned", !.value = True]
    \* interruptible_sleep(5); final_final = table_is_ready(self.driver)
    \/ /\ UNCHANGED nonTblVars
       /\ wtl.pc = "extended"
       /\ UNCHANGED cancel_event
       /\ IF cancel_event
          THEN wtl' = [wtl EXCEPT !.pc = "cancelled"]
          ELSE \E final_final \in TableResults, fingerprint \in Fingerprints :
                  wtl' = [Sampled(wtl, final_final, fingerprint)
                             EXCEPT !.pc = "returned",
                                    !.value = IF final_final = "has_data"
                                              THEN True ELSE False]
    \* a read of the loading indicator (self.driver.execute_script, in no try) or
    \* of table_is_ready (which re-raises what is not a "document.body is null" /
    \* "can't access property" message) raises: only TimeoutException is caught
    \/ /\ UNCHANGED nonTblVars
       /\ wtl.pc \in {"phase1", "phase2", "stability", "final", "extended"}
       /\ \/ ~cancel_event
          \/ wtl.pc = "final"
          \/ wtl.pc = "stability" /\ wtl.i = stability_checks
       /\ UNCHANGED cancel_event
       /\ wtl' = [wtl EXCEPT !.pc = "raised"]

NextTable == CancelRequested \/ wait_for_table_loaded

(***************************************************************************)
(* LogBuffer (logging_handler.py): the worker's log callback puts a        *)
(* LogMessage on a queue.Queue, the controlling thread's _poll_updates     *)
(* calls poll() and hands every message of the returned list to _log.      *)
(* Messages are numbered in the order of their put; lb.handed lists the    *)
(* messages handed to _log since the last clear(), lb.base is the number   *)
(* of the last message put before that clear().                            *)
(***************************************************************************)
MaxMessages == 5
max_messages == 10000

LogIdle ==
    lb = [queue |-> <<>>, messages |-> <<>>, new_messages |-> <<>>, pc |-> "idle",
          put_count |-> 0, handed |-> <<>>, base |-> 0]

\* a queue that hands out its newest entry first
QueueGet_NewestFirst(queue) ==
    [msg |-> queue[Len(queue)], rest |-> SubSeq(queue, 1, Len(queue) - 1)]

\* queue.Queue.get_nowait(): the oldest entry
QueueGet(queue) == [msg |-> Head(queue), rest |-> Tail(queue)]

\* self.messages[-self.max_messages:]
LastMessages(messages) ==
    IF Len(messages) > max_messages
    THEN SubSeq(messages, Len(messages) - max_messages + 1, Len(messages))
    ELSE messages

\* LogBuffer.add on the worker thread: self.queue.put(log_msg)
LogAdd ==
    /\ UNCHANGED nonLogVars
    /\ lb.put_count < MaxMessages
    /\ lb' = [lb EXCEPT !.put_count = @ + 1, !.queue = Append(@, lb.put_count + 1)]

\* LogBuffer.poll on the controlling thread, one queue operation per step
LogPoll ==
    \* new_messages = []
    \/ /\ UNCHANGED nonLogVars
       /\ lb.pc = "idle"
       /\ lb' = [lb EXCEPT !.pc = "polling", !.new_messages = <<>>]
    \* while not self.queue.empty(): msg = self.queue.get_nowait(); append; trim
    \/ /\ UNCHANGED nonLogVars
       /\ lb.pc = "polling"
       /\ lb.queue # <<>>
       /\ LET got == QueueGet(lb.queue)
          IN  lb' = [lb EXCEPT !.queue = got.rest,
                               !.messages = LastMessages(Append(@, got.msg)),
                               !.new_messages = Append(@, got.msg)]
    \* return new_messages; for msg in new_messages: self._log(...)
    \/ /\ UNCHANGED nonLogVars
       /\ lb.pc = "polling"
       /\ lb.queue = <<>>
       /\ lb' = [lb EXCEPT !.pc = "idle", !.handed = @ \o lb.new_messages,
                            !.new_messages = <<>>]

\* LogBuffer.clear on the controlling thread (_start_automation, clear log)
LogClear ==
    /\ UNCHANGED nonLogVars
    /\ lb.pc = "idle"
    /\ lb.handed # <<>> \/ lb.queue # <<>>
    /\ lb' = [lb EXCEPT !.messages = <<>>, !.queue = <<>>, !.handed = <<>>,
                         !.base = lb.put_count]

NextLog == LogAdd \/ LogPoll \/ LogClear

(***************************************************************************)
(* The specifications.                                                     *)
(***************************************************************************)
ExtIdle == TableIdle /\ LogIdle /\ PageIdle /\ SessIdle

InitSpec == InitCtl /\ PrimIdle /\ DomIdle /\ BotIdle /\ ExtIdle

Spec == InitSpec /\ [][NextCtl]_vars

(***************************************************************************)
(* The Tk main loop runs every scheduled callback when its delay expires.  *)
(***************************************************************************)
SpecTimers == Spec /\ WF_vars(EscalateStop) /\ WF_vars(FinalizeStop)

InitSpecPrim == InitCtl /\ InitPrim /\ DomIdle /\ BotIdle /\ ExtIdle

SpecPrim == InitSpecPrim /\ [][NextPrim]_vars

InitSpecDomain == InitCtl /\ PrimIdle /\ InitDom /\ BotIdle /\ ExtIdle

SpecDomain == InitSpecDomain /\ [][NextDom]_vars

InitSpecBot == InitCtl /\ PrimIdle /\ DomIdle /\ InitBot /\ TableIdle /\ LogIdle /\ PageIdle

SpecBot == InitSpecBot /\ [][NextBot]_vars

\* the worker thread is scheduled as long as its function has not returned
SpecBotFair == SpecBot /\ WF_vars(WorkerStep)

InitSpecSelect == InitCtl /\ PrimIdle /\ DomIdle /\ InitSelect /\ TableIdle /\ LogIdle /\ PageIdle

SpecSelect == InitSpecSelect /\ [][NextSelect]_vars /\ WF_vars(SelectStep)

InitSpecTable == InitCtl /\ PrimIdle /\ DomIdle /\ BotIdle /\ InitTable /\ LogIdle /\ PageIdle /\ SessIdle

SpecTable == InitSpecTable /\ [][NextTable]_vars

InitSpecClose == InitCtl /\ PrimIdle /\ DomIdle /\ BotIdle /\ ExtIdle

SpecClose == InitSpecClose /\ [][NextClose]_vars

InitSpecStop == InitCtl /\ PrimIdle /\ DomIdle /\ BotIdle /\ ExtIdle

SpecStop == InitSpecStop /\ [][NextStop]_vars

InitSpecLog == InitCtl /\ PrimIdle /\ DomIdle /\ BotIdle /\ TableIdle /\ LogIdle /\ PageIdle /\ SessIdle

SpecLog == InitSpecLog /\ [][NextLog]_vars

(***************************************************************************)
(* C1: at every moment at most one worker thread started by                *)
(* _start_automation is alive, so the bot's session is never driven by two *)
(* workflow runs at once, also for a start issued after _finalize_stop     *)
(* reset is_running while the stopped worker has not exited.               *)
(***************************************************************************)
C1_AtMostOneWorkerAlive == Cardinality(AliveWorkers) <= 1

(***************************************************************************)
(* C2: after a stop was requested on a running workflow the controller     *)
(* eventually reaches the not-running state, even if the worker thread     *)
(* never exits, provided the scheduled timer callbacks fire and stop is    *)
(* requested finitely often.                                               *)
(***************************************************************************)
StopInProgress ==
    /\ is_running
    /\ cancel_event
    /\ \E e \in after_pending : e.fn \in {"escalate", "finalize"}

C2_StopLeadsToNotRunning == StopInProgress ~> ~is_running

C2_Witness_ForcedWithLiveWorker ==
    /\ ~is_running
    /\ result_shown = "failure"
    /\ stops > 0
    /\ \E t \in Threads : is_alive(t) /\ ~thread_saw_cancel[t]

(***************************************************************************)
(* C6: from the moment the token is set until the worker of that run has   *)
(* exited the token is never cleared: a step that clears the token is      *)
(* taken only when no worker thread is alive.                              *)
(***************************************************************************)
C6_TokenClearedOnlyWithoutLiveWorker ==
    [][(cancel_event /\ ~cancel_event') => AliveWorkers = {}]_vars

(***************************************************************************)
(* C7: if the token is set while interruptible_sleep(d) is sleeping, the   *)
(* call raises OperationCancelledException no later than the end of the    *)
(* current increment of at most 0.5 s, whatever d is; it returns normally  *)
(* only when the increments have summed to d with the token not set        *)
(* before the end of the sleep.                                            *)
(***************************************************************************)
C7_SleepCancelledWithinIncrement ==
    prim = "interruptible_sleep" =>
        /\ prim_pc = "cancelled" =>
               cancel_event /\ set_at >= 0 /\ now - set_at <= SleepTick /\ now <= wait_end
        /\ (cancel_event /\ prim_pc \in {"loop", "waiting"}) => now - set_at <= SleepTick
        /\ prim_pc = "returned" =>
               /\ elapsed = duration
               /\ now = duration
               /\ cancel_event => set_at = duration

C7_Witness_CancelledInLaterIncrement ==
    /\ prim = "interruptible_sleep"
    /\ prim_pc = "cancelled"
    /\ duration > 2 * SleepTick
    /\ elapsed >= SleepTick
    /\ set_at > SleepTick
    /\ now > set_at

(***************************************************************************)
(* C8: cancellable_wait(timeout, predicate) raises Cancelled at the first  *)
(* check after the token was set, within one wait of at most 2 s, and      *)
(* raises Timeout only when the whole timeout has elapsed with the token   *)
(* unset and the predicate never satisfied.                                *)
(***************************************************************************)
C8_TimeoutOnlyWithTokenUnset ==
    prim = "cancellable_wait" =>
        /\ prim_pc = "cancelled" => cancel_event /\ now - set_at <= WaitTick
        /\ prim_pc = "timeout" =>
               /\ elapsed >= duration
               /\ cancel_event => set_at >= duration

(***************************************************************************)
(* C10: get_counterpart_domain is an involution on every domain name       *)
(* containing Sign or Auth, and returns None for every name containing     *)
(* neither.                                                                *)
(***************************************************************************)
C10_CounterpartInvolution ==
    /\ (dom_pc \in {"once", "twice"} /\ ~Contains(domain_name, Sign) /\ ~Contains(domain_name, Auth))
          => counterpart = NoneStr
    /\ (dom_pc = "once" /\ (Contains(domain_name, Sign) \/ Contains(domain_name, Auth)))
          => counterpart # NoneStr
    /\ dom_pc = "twice" => counterpart2 = domain_name

(***************************************************************************)
(* C3: within one call of select_specific_users, go_to_next_page is never  *)
(* invoked after a checkbox has been selected in that call, and the call   *)
(* returns exactly the items it selected.                                  *)
(***************************************************************************)
C3_ReturnsExactlyTheSelectedItems ==
    /\ (callee = "go_to_next_page" /\ bot_pc \in {"helper_entry", "helper_body"})
          => (ssu.selected_count = 0 /\ ssu.matched_users = {})
    /\ ssu.state = "returned"
          => (ssu.returned_count = ssu.selected_count
              /\ ssu.returned_matched = ssu.matched_users)

(***************************************************************************)
(* C4: every progress snapshot with total > 0 has 0 <= current <= total.   *)
(* Every snapshot is the last one when it is handed over.                  *)
(***************************************************************************)
C4_CurrentWithinTotal ==
    (emitted.any /\ emitted.last.total > 0)
        => (0 <= emitted.last.current /\ emitted.last.current <= emitted.last.total)

(***************************************************************************)
(* C5: the phase values of successive snapshots of a run never decrease    *)
(* and never exceed the totalPhases of the run's first snapshot, and       *)
(* totalPhases does not change.  Snapshots that carry no phase are left    *)
(* out of the comparison.                                                  *)
(***************************************************************************)
C5_PhasesMonotoneAndBounded ==
    (emitted.any /\ emitted.last.phase # None)
        => /\ emitted.last.total_phases = emitted.first.total_phases
           /\ emitted.last.phase <= emitted.first.total_phases
           /\ emitted.prev_phase <= emitted.last.phase

C11_ReadyOnlyAfterStableWindow ==
    wtl.pc = "returned" => wtl.stable >= stability_checks

(***************************************************************************)
(* C12: a cancellation is caught only at the boundary of the workflow      *)
(* function, never by an except clause inside a helper or a loop: when the *)
(* token is set and the worker is at the entry check of a helper or inside *)
(* its body, the step that observes the token hands control to the         *)
(* workflow's `except OperationCancelledException` clause.                 *)
(***************************************************************************)
C12_CancellationCaughtOnlyAtWorkflowBoundary ==
    [][(cancel_event /\ bot_pc \in {"helper_entry", "helper_body"})
          => bot_pc' = "run_cancelled"]_vars

(***************************************************************************)
(* C13: whenever a workflow function returns False, the last progress      *)
(* snapshot it emitted is a terminal one: not the indeterminate snapshot   *)
(* (total = -1) and not the initial connecting snapshot (0 of 0).  Stated  *)
(* for runs that were not cancelled and whose progress sink accepts the    *)
(* six fields.                                                             *)
(***************************************************************************)
C13_FailureEndsWithTerminalSnapshot ==
    (result = "False" /\ ~cancel_event /\ ~CallbackRaises)
       => /\ emitted.any
          /\ emitted.last.total # -1
          /\ ~(emitted.last.current = 0 /\ emitted.last.total = 0)

C16_TotalPhasesFromCounterpart ==
    [][(/\ ~emitted.any
        /\ emitted'.any
        /\ workflow \in ApprovalWorkflows \cup {"run_revoke_certificate_approval"})
          => emitted'.first.total_phases =
                (IF run.process_counterpart /\ get_counterpart_domain(run.domain) # NoneStr
                 THEN 2 ELSE 1)]_vars

(***************************************************************************)
(* C17: every progress event a workflow hands to report_progress with the  *)
(* six fields is accepted by the sink built by ProgressTracker.get_callback*)
(* (and enqueued for the next poll): the step that emits a snapshot to     *)
(* that sink does not end in an except clause.                             *)
(***************************************************************************)
C17_TrackerSinkAcceptsSixFields ==
    [][(progress_callback = "three_fields" /\ emitted' # emitted)
          => bot_pc' \notin {"run_error", "ssu_except", "au_except", "aug_except",
                             "raad_except"}]_vars

(***************************************************************************)
(* C18: LogBuffer.poll hands the log messages to the controlling side in   *)
(* exactly the order in which they were emitted, each exactly once, for    *)
(* every interleaving of the worker's add with the steps of poll: the      *)
(* messages handed over, those of the poll in progress and those still     *)
(* queued are, in this order, the messages emitted since the last clear(), *)
(* without gap or repetition.                                              *)
(***************************************************************************)
C18_LogMessagesInOrderExactlyOnce ==
    lb.handed \o lb.new_messages \o lb.queue
       = [k \in 1..(lb.put_count - lb.base) |-> lb.base + k]

C18_Witness_AddDuringPoll ==
    /\ lb.pc = "polling"
    /\ lb.base = 0
    /\ lb.handed = <<1>>
    /\ lb.new_messages = <<2>>
    /\ lb.queue = <<3>>

(***************************************************************************)
(* C19: while a worker thread is alive, the controlling thread does not    *)
(* touch the driver handle of the bot that worker holds, except in the     *)
(* forced quit of _escalate_stop: a step that quits a live driver of a bot *)
(* held by a live worker is the firing of the escalation timer.            *)
(***************************************************************************)
C19_OnlyEscalationTouchesDriverOfLiveWorker ==
    [][\A b \in Bots :
          (/\ bot_driver[b] = "live"
           /\ bot_driver'[b] = "none"
           /\ \E t \in AliveWorkers : thread_bot[t] = b)
             => \E e \in after_pending : e.fn = "escalate" /\ e \notin after_pending']_vars

(***************************************************************************)
(* C20: every wait of the worker on the remote surface polls the token: a  *)
(* worker that is still waiting with the token set has been waiting for at *)
(* most 2 s since the token was set (0.5 s in a sleep), in every helper.   *)
(***************************************************************************)
C20_TokenObservedWithinPollInterval ==
    (cancel_event /\ prim_pc = "waiting")
       => now - set_at <= (IF prim = "interruptible_sleep" THEN SleepTick ELSE WaitTick)

(***************************************************************************)
(* C21: in approve_users and reject_users a cancellation observed inside   *)
(* the submission loop leaves the function as OperationCancelledException: *)
(* when the token is set and the worker is at a point of the loop (the     *)
(* wait for the submit control included), its next step unwinds to the     *)
(* handler of the caller; it neither returns a value to the caller nor     *)
(* goes on to the "Completed" report.                                      *)
(***************************************************************************)
C21_CancellationLeavesSubmissionLoop ==
    [][(/\ cancel_event
        /\ bot_pc \in {"au_loop", "au_comment", "au_submit", "au_transition",
                       "au_stabilize"}
        /\ bot_pc' # bot_pc)
          => /\ bot_pc' = Unwind(call_stack, "approve_users",
                                 OperationCancelledException).pc
             /\ call_stack' = Unwind(call_stack, "approve_users",
                                     OperationCancelledException).stack]_vars

(***************************************************************************)
(* C22: a workflow function during which a cancellation was raised never   *)
(* returns True (the return that follows its "Completed" snapshot and its  *)
(* success summary).  At the control points named here the next step of    *)
(* the worker checks the token, so with the token set a cancellation is    *)
(* raised in this run: from then on the run's result is never True.        *)
(***************************************************************************)
C22_CancelledRunNeverReturnsTrue ==
    []((/\ cancel_event
        /\ bot_pc \in {"helper_entry", "helper_body", "approve_users", "au_loop",
                       "au_comment", "au_submit", "au_transition",
                       "assign_users_to_group", "aug_open", "aug_loop",
                       "aug_batch", "aug_reselect"})
          => [](result # "True"))

(***************************************************************************)
(* C23: in the specific-users batch loops (primary phase and counterpart   *)
(* phase) a failed batch removes nothing from the remaining target set:    *)
(* when approve_users / reject_users has returned no positive count, the   *)
(* step that handles the batch leaves usernames_to_approve and remaining   *)
(* as they were.                                                           *)
(***************************************************************************)
C23_FailedBatchRemovesNothing ==
    [][(/\ bot_pc \in {"rap_batch_approved", "rap_cp_batch_approved"}
        /\ ~(ret > 0)
        /\ bot_pc' # bot_pc)
          => /\ run'.usernames_to_approve = run.usernames_to_approve
             /\ run'.remaining = run.remaining]_vars

(***************************************************************************)
(* C24: one call of approve_users or reject_users performs at most as many *)
(* submit clicks as items were selected for the batch: while the function  *)
(* runs, the number of clicks made (approved_count) never exceeds the      *)
(* number selected, whatever the remote surface shows after a submission.  *)
(***************************************************************************)
C24_SubmitClicksWithinSelected ==
    bot_pc \in {"au_loop", "au_comment", "au_submit", "au_transition",
                "au_stabilize", "au_completed"}
       => au.approved_count <= run.selected

C27_FinalizeMarksStoppedAndReportsFailure ==
    [][((\/ /\ finalize_timer_id # None
            /\ \E e \in after_pending \ after_pending' :
                  e.id = finalize_timer_id /\ e.fn = "finalize"
            /\ stops' = stops
         \/ /\ escalate_timer_id # None
            /\ \E e \in after_pending \ after_pending' :
                  e.id = escalate_timer_id /\ e.fn = "escalate"
            /\ stops' = stops
            /\ is_running
            /\ ~(automation_thread # None /\ thread_state[automation_thread] = "alive")))
          => /\ is_running
             /\ ~is_running'
             /\ automation_thread' = None
             /\ result_shown' = "failure"]_vars

\* finalized at the first timer: only one timer was ever armed, the worker
\* had exited, and the run is marked stopped with a failure outcome
C27_Witness_FinalizedFromEscalation ==
    /\ ~is_running
    /\ automation_thread = None
    /\ result_shown = "failure"
    /\ after_count = 1
    /\ after_pending = {}
    /\ thread_state[1] = "dead"
    /\ runs = 1

(***************************************************************************)
(* C28: if the worker thread exits before a pending escalation or finalize *)
(* timer fires, neither the forced quit nor the forced finalize with its   *)
(* failure outcome is executed for that run: a timer callback that runs    *)
(* after the worker of the current run has exited changes neither          *)
(* is_running, nor a driver handle, nor the outcome shown.                 *)
(***************************************************************************)
C28_NoForcedStepAfterWorkerExit ==
    [][(/\ automation_thread # None
        /\ thread_state[automation_thread] = "dead"
        /\ (EscalateStop \/ FinalizeStop))
          => /\ is_running' = is_running
             /\ bot_driver' = bot_driver
             /\ result_shown' = result_shown]_vars

(***************************************************************************)
(* C29: requesting stop again while a stop is in progress does not         *)
(* postpone escalation: while the worker of the run stays alive, the       *)
(* escalation timer is no longer pending once more than 5 s have passed    *)
(* since the first stop request of the run (the forced quit has happened), *)
(* and the run is no longer marked running once more than 10 s have passed *)
(* since it (the forced finalize has happened).                            *)
(***************************************************************************)
C29_RepeatedStopDoesNotPostponeEscalation ==
    (/\ is_running
     /\ stop_at # -1
     /\ automation_thread # None
     /\ thread_state[automation_thread] = "alive")
       => /\ (\E e \in after_pending : e.fn = "escalate")
                => clock - stop_at <= TimerDelay
          /\ clock - stop_at <= 2 * TimerDelay

(***************************************************************************)
(* C30: in every reachable controller state at most one of the escalation  *)
(* timer and the finalize timer is pending, and a timer is pending only    *)
(* while the run is marked running; so when a run is started no timer of   *)
(* an earlier run is left to fire.                                         *)
(***************************************************************************)
C30_AtMostOneTimerAndOnlyWhileRunning ==
    /\ Cardinality({e \in after_pending : e.fn \in {"escalate", "finalize"}}) <= 1
    /\ after_pending # {} => is_running

\* the finalize timer of a second run is the only pending timer
C30_Witness_TimerPendingInSecondRun ==
    /\ runs = 2
    /\ is_running
    /\ \E e \in after_pending : e.fn = "finalize"
    /\ Cardinality(after_pending) = 1

(***************************************************************************)
(* C31.  After the worker thread has exited on its own, with no stop       *)
(* requested, a poll marks the run finished: is_running becomes False and  *)
(* the thread reference is dropped (which enables the start button); an    *)
(* error raised while the poll drains the log or progress queue does not   *)
(* keep the finished check from running.                                   *)
(***************************************************************************)
C31_PollMarksExitedRunFinished ==
    [][(/\ PollUpdates
        /\ is_running
        /\ ~cancel_event
        /\ automation_thread # None
        /\ thread_state[automation_thread] = "dead")
       => (~is_running' /\ automation_thread' = None)]_vars

(***************************************************************************)
(* C32.  wait_for_table_loaded returns False (no data) only if the         *)
(* terminal predicate it sampled last was 'empty'; it does not return      *)
(* False because the wait timed out or because the table was still         *)
(* loading.                                                                *)
(***************************************************************************)
C32_FalseOnlyAfterEmptySample ==
    (wtl.pc \in {"returned", "timed_out"} /\ wtl.value = False)
       => wtl.last_result = "empty"

C34_TlsFailureRetriedOnceOthersEndTheCall ==
    [][/\ bot_pc' = "ntg_attempt" => sess'.attempt < 2
       /\ (bot_pc = "ntg_outcome" /\ bot_pc' # bot_pc)
          => LET first_tls == sess.failure = "tls_failure" /\ sess.attempt = 0
                 raised == IF sess.failure = "cancelled" \/ (first_tls /\ cancel_event)
                           THEN OperationCancelledException ELSE Exception
             IN  IF first_tls /\ ~cancel_event
                 THEN /\ bot_pc' = "ntg_attempt"
                      /\ sess'.attempt = 1
                      /\ sess'.slept = sess.slept + 5
                 ELSE IF sess.failure = "connected"
                      THEN bot_pc' = Head(call_stack).ret /\ ret' = True
                 ELSE IF sess.failure = "rejection"
                      THEN bot_pc' = Head(call_stack).ret /\ ret' = False
                 ELSE /\ bot_pc' = Unwind(call_stack, "none", raised).pc
                      /\ call_stack' = Unwind(call_stack, "none", raised).stack]_vars

C34_Witness_SecondTlsFailureAfterBackoff ==
    /\ bot_pc = "ntg_outcome"
    /\ sess.attempt = 1
    /\ sess.slept = 5
    /\ sess.failure = "tls_failure"
    /\ ~cancel_event

(***************************************************************************)
(* C35.  ensure_valid_session returns True without creating a client when  *)
(* is_session_valid() holds; otherwise it quits and drops any existing     *)
(* client, creates a new one and runs the authentication navigation; it    *)
(* returns False only when the authentication navigation itself fails.     *)
(***************************************************************************)
C35_ReuseValidSessionElseReauthenticate ==
    [][/\ (bot_pc = "evs_checked" /\ bot_pc' # bot_pc)
          => IF sess.valid
             THEN /\ bot_pc' = Head(call_stack).ret
                  /\ ret' = True
                  /\ sess'.driver = sess.driver
                  /\ sess'.created = 0
             ELSE /\ bot_pc' = "setup_browser"
                  /\ sess'.driver = "none"
                  /\ sess'.quits = (IF sess.driver = "live" THEN 1 ELSE 0)
       /\ (bot_pc = "setup_browser" /\ bot_pc' # bot_pc)
          => \/ /\ bot_pc' = "navigate_to_govca"
                /\ sess'.driver = "live"
                /\ sess'.created = sess.created + 1
             \/ /\ bot_pc' \in {"run_cancelled", "run_error", "raad_except"}
                /\ ret' = ret
       /\ (/\ bot_pc \in {"ensure_valid_session", "evs_checked", "setup_browser",
                          "navigate_to_govca", "ntg_attempt", "ntg_outcome"}
           /\ bot_pc' = Head(call_stack).ret
           /\ ret' = False)
          => (/\ bot_pc = "ntg_outcome"
              /\ sess.failure = "rejection"
              /\ sess.created = 1)]_vars

C35_Witness_DeadClientReplacedAndRejected ==
    /\ bot_pc = "ntg_outcome"
    /\ sess.quits = 1
    /\ sess.created = 1
    /\ sess.driver = "live"
    /\ sess.failure = "rejection"

(***************************************************************************)
(* C36.  One call of select_specific_users inspects at most 50 pages and   *)
(* always ends, whatever the remote surface answers, as long as every      *)
(* remote call returns; unless a stop was requested it ends by returning   *)
(* the selected count and the matched set.                                 *)
(***************************************************************************)
C36_SelectionInspectsAtMostFiftyPagesAndEnds ==
    /\ [](bot_pc \in {"ssu_wait", "ssu_read", "ssu_select"} => ssu.current_page <= 50)
    /\ <>(call_stack = <<>>)
    /\ []((call_stack = <<>> /\ ~cancel_event)
             => (/\ bot_pc = "caller"
                 /\ ret = ssu.returned_count
                 /\ ret_matched = ssu.returned_matched))

C36_Witness_FiftiethPageInspected ==
    /\ bot_pc = "ssu_read"
    /\ ssu.current_page = 50
    /\ ~cancel_event

(***************************************************************************)
(* C37.  The specific-users batch loop of run_approval_process and         *)
(* run_rejection_process runs at most 20 batches; every batch after which  *)
(* the loop continues removes at least one identifier from the remaining   *)
(* set; so the number of batches is at most min(20, number of targets).    *)
(***************************************************************************)
C37_BatchLoopBoundedByTargets ==
    [][/\ (bot_pc = "rap_batch" /\ bot_pc' = "select_specific_users")
          => (run.batch_number <= 20 /\ run.batch_number <= run.total_users)
       /\ (bot_pc = "rap_batch_approved" /\ bot_pc' = "rap_batch_again")
          => (/\ run'.usernames_to_approve \subseteq run.usernames_to_approve
              /\ run'.usernames_to_approve # run.usernames_to_approve)
       /\ (bot_pc # "rap_batch" /\ bot_pc' = "rap_batch" /\ bot_pc # "rap_select")
          => (/\ bot_pc = "rap_batch_searched"
              /\ run'.batch_number = run.batch_number + 1)]_vars

C37_Witness_BatchLimitReachedWithTargetsLeft ==
    /\ bot_pc = "rap_batch"
    /\ run.batch_number = 21
    /\ run.usernames_to_approve # {}
    /\ run.total_approved = 20

(***************************************************************************)
(* C38.  get_counterpart_domain(d) returns a value other than None only    *)
(* for names that end with the suffix Sign or Auth, and the value is d     *)
(* with only that suffix swapped; for every domain of DOMAIN_LIST and      *)
(* every bounded string.                                                   *)
(***************************************************************************)
C38_CounterpartSwapsOnlyTheSuffix ==
    LET n == Len(domain_name)
        stem == SubSeq(domain_name, 1, n - 4)
        ending == IF n >= 4 THEN SubSeq(domain_name, n - 3, n) ELSE <<>>
    IN  dom_pc \in {"once", "twice"}
           => /\ counterpart # NoneStr => ending \in {Sign, Auth}
              /\ ending = Sign => counterpart = stem \o Auth
              /\ ending = Auth => counterpart = stem \o Sign

(***************************************************************************)
(* C39.  During wait_for_table_loaded a read of the remote surface that    *)
(* fails (table state, loading indicator, terminal predicate, fingerprint) *)
(* counts as a sample that is still loading and the wait goes on: no read  *)
(* failure leaves wait_for_table_loaded as an error.                       *)
(***************************************************************************)
C39_ReadFailureNeverLeavesAsError == wtl.pc # "raised"

====
